---- MODULE Spec2Model ----
(***************************************************************************)
(* KBNet (calibrated backprojection network): the modules of               *)
(* kbnet/networks.py as state machines: KBNetEncoder, MultiScaleDecoder,    *)
(* the constructors of the ResNet and VGGNet encoders, SparseToDensePool.   *)
(*                                                                         *)
(* A tensor is abstracted to its shape and its provenance:                  *)
(*   [id |-> the name of the value, ch |-> channels, h |-> height,          *)
(*    w |-> width].                                                         *)
(* An intrinsics matrix is a 3 x 3 tuple of exact fractions <<num, den>>;   *)
(* float32 rounding of the products is not modelled.                        *)
(* A depth map is a function from pixels <<row, column>> to integers.       *)
(***************************************************************************)
EXTENDS Integers, Sequences, FiniteSets, TLC

VARIABLES
    \* KBNetEncoder
    pc,        \* "new", "failed", "ready", "L0" .. "L4", "done", "raised"
    args,      \* the arguments of the last KBNetEncoder(...) call
    self,      \* the module's attributes: resolutions_backprojection, blocks
    inputs,    \* image, depth, intrinsics of the forward call in progress
    sizes,     \* forward's integer locals (n_batch, n_height0, ...)
    assigned,  \* the names of forward's integer locals that are bound
    image_s,   \* conv1_image .. conv5_image computed so far
    depth_s,   \* conv1_depth .. conv5_depth computed so far
    fused_s,   \* conv1_fused .. conv5_fused computed so far (None if plain)
    layers,    \* forward's list layers
    calls,     \* the block invocations of this forward call, in order
    coords,    \* the camera_coordinates calls of this forward call, in order
    n_scale,   \* number of scale_intrinsics calls in this forward call
    result,    \* what forward returned: NoResult or [bottleneck, skips]
    err,       \* "" or the exception that ended the constructor / forward
    \* MultiScaleDecoder
    d_pc,      \* "new", "failed", "ready", "D6" .. "D0", "done", "raised"
    d_args,    \* the arguments of the MultiScaleDecoder(...) call
    d_self,    \* the attributes: n_resolution, output_func, blocks
    d_in,      \* x, skips, shape of the forward call in progress
    d_layers,  \* forward's list layers
    d_outputs, \* forward's list outputs
    d_n,       \* forward's local n, the index into skips
    d_up,      \* forward's locals upsample_output3 .. upsample_output1
    d_calls,   \* the block invocations of this forward call, in order
    d_result,  \* what forward returned
    d_err,     \* "" or the exception that ended the constructor / forward
    \* ResNetEncoder, AtrousResNetEncoder, VGGNetEncoder, AtrousVGGNetEncoder
    enc,       \* the last constructor call of these classes and its outcome
    \* SparseToDensePool
    p_pc,      \* "new", "ready", "min", "max", "cat", "done", "raised"
    p_self,    \* the attributes: min_pool_sizes, max_pool_sizes, ...
    p_x,       \* the input of the forward call in progress
    p_pyramid, \* forward's list pool_pyramid
    p_result,  \* what forward returned
    p_err      \* "" or the exception that ended forward

\* the variables of the MultiScaleDecoder
dvars == <<d_pc, d_args, d_self, d_in, d_layers, d_outputs, d_n, d_up, d_calls,
           d_result, d_err>>

\* the variables of SparseToDensePool
pvars == <<p_pc, p_self, p_x, p_pyramid, p_result, p_err>>

\* the variables of the KBNetEncoder
kvars == <<pc, args, self, inputs, sizes, assigned, image_s, depth_s, fused_s,
           layers, calls, coords, n_scale, result, err>>

vars == <<kvars, dvars, enc, pvars>>

-----------------------------------------------------------------------------
(* Bounds of the model *)

\* image height and width range over 1..MaxSide (and the 256 of the example)
MaxSide == 3
\* batch sizes range over 1..MaxBatch
MaxBatch == 2

-----------------------------------------------------------------------------
(* Exact fractions *)

Abs(x) == IF x < 0 THEN -x ELSE x

RECURSIVE GCD(_, _)
GCD(a, b) == IF b = 0 THEN a ELSE GCD(b, a % b)

\* the fraction n / d in lowest terms, d > 0
Frac(n, d) == LET g == GCD(Abs(n), d) IN <<n \div g, d \div g>>

FInt(n) == <<n, 1>>
FMul(a, b) == Frac(a[1] * b[1], a[2] * b[2])
FAdd(a, b) == Frac(a[1] * b[2] + b[1] * a[2], a[2] * b[2])
FSub(a, b) == Frac(a[1] * b[2] - b[1] * a[2], a[2] * b[2])

\* a 3 x 3 integer matrix as a matrix of fractions
Mat(m) == [i \in 1..3 |-> [j \in 1..3 |-> FInt(m[i][j])]]

\* element-wise product of two 3 x 3 matrices (torch's k * scale)
Hadamard(k, s) == [i \in 1..3 |-> [j \in 1..3 |-> FMul(k[i][j], s[i][j])]]

Det3(m) ==
    FAdd(FSub(FMul(m[1][1], FSub(FMul(m[2][2], m[3][3]), FMul(m[2][3], m[3][2]))),
              FMul(m[1][2], FSub(FMul(m[2][1], m[3][3]), FMul(m[2][3], m[3][1])))),
         FMul(m[1][3], FSub(FMul(m[2][1], m[3][2]), FMul(m[2][2], m[3][1]))))

-----------------------------------------------------------------------------
(* Tensors *)

None == [id |-> "None", parts |-> <<>>, ch |-> 0, h |-> 0, w |-> 0]

Tensor(id, ch, h, w) == [id |-> id, parts |-> <<>>, ch |-> ch, h |-> h, w |-> w]

\* torch.cat([a, b], dim=1): the parts keep the operands' names, in order
Cat(a, b) == [id |-> "cat", parts |-> <<a.id, b.id>>,
              ch |-> a.ch + b.ch, h |-> a.h, w |-> a.w]

-----------------------------------------------------------------------------
(* KBNetEncoder.__init__ *)

network_depth == 5

Levels == 0..(network_depth - 1)

\* the attribute names of the blocks of level n, at index n + 1
CBName == <<"calibrated_backprojection1", "calibrated_backprojection2",
            "calibrated_backprojection3", "calibrated_backprojection4",
            "calibrated_backprojection5">>
ConvImageName == <<"conv1_image", "conv2_image", "conv3_image", "conv4_image",
                   "conv5_image">>
ConvDepthName == <<"conv1_depth", "conv2_depth", "conv3_depth", "conv4_depth",
                   "conv5_depth">>

BlockNames == {"conv0_image", "conv0_depth"}
              \cup {CBName[i] : i \in 1..5}
              \cup {ConvImageName[i] : i \in 1..5}
              \cup {ConvDepthName[i] : i \in 1..5}

\* an attribute that was never set
NoBlock == [kind |-> "absent", in_image |-> 0, in_depth |-> 0, in_fused |-> 0,
            out_image |-> 0, out_depth |-> 0, out_fused |-> 0,
            n_conv_image |-> 0, n_conv_depth |-> 0, n_conv_fused |-> 0,
            stride |-> 0]

\* net_utils.Conv2d(in_channels, out_channels, kernel_size=3, stride)
Conv2d(in_channels, out_channels, stride) ==
    [NoBlock EXCEPT !.kind = "Conv2d", !.in_image = in_channels,
                    !.out_image = out_channels, !.n_conv_image = 1,
                    !.stride = stride]

\* net_utils.VGGNetBlock(in_channels, out_channels, n_convolution, stride)
VGGNetBlock(in_channels, out_channels, n_convolution, stride) ==
    [NoBlock EXCEPT !.kind = "VGGNetBlock", !.in_image = in_channels,
                    !.out_image = out_channels, !.n_conv_image = n_convolution,
                    !.stride = stride]

\* net_utils.CalibratedBackprojectionBlock(...): halves the resolution
CalibratedBackprojectionBlock(in_channels_image, in_channels_depth, in_channels_fused, n_filter_image, n_filter_depth, n_filter_fused, n_convolution_image, n_convolution_depth, n_convolution_fused) ==
    [kind |-> "CalibratedBackprojectionBlock",
     in_image |-> in_channels_image, in_depth |-> in_channels_depth,
     in_fused |-> in_channels_fused,
     out_image |-> n_filter_image, out_depth |-> n_filter_depth,
     out_fused |-> n_filter_fused,
     n_conv_image |-> n_convolution_image, n_conv_depth |-> n_convolution_depth,
     n_conv_fused |-> n_convolution_fused, stride |-> 2]

\* net_utils.activation_func(name) raises for a name it does not recognise
RecognizedActivations == {"leaky_relu", "linear", "upsample"}

\* mutant: the last assertion accepts a longer list
CtorAssertsHold_AtLeast(a) ==
    /\ Len(a.n_convolutions_image) = network_depth
    /\ Len(a.n_convolutions_depth) = network_depth
    /\ Len(a.n_convolutions_fused) = network_depth
    /\ Len(a.n_filters_image) = network_depth
    /\ Len(a.n_filters_depth) = network_depth
    /\ Len(a.n_filters_fused) >= network_depth

\* the six length assertions
CtorAssertsHold(a) ==
    /\ Len(a.n_convolutions_image) = network_depth
    /\ Len(a.n_convolutions_depth) = network_depth
    /\ Len(a.n_convolutions_fused) = network_depth
    /\ Len(a.n_filters_image) = network_depth
    /\ Len(a.n_filters_depth) = network_depth
    /\ Len(a.n_filters_fused) = network_depth

\* mutant: the initial feature extractors downsample
InitialExtractor_Stride2(in_channels, out_channels) == Conv2d(in_channels, out_channels, 2)

\* conv0_image, conv0_depth: "Initial feature extractors on inputs", stride 1
InitialExtractor(in_channels, out_channels) == Conv2d(in_channels, out_channels, 1)

\* mutant: the plain blocks keep the resolution
PlainBlock_Stride1(in_channels, out_channels, n_convolution) ==
    VGGNetBlock(in_channels, out_channels, n_convolution, 1)

\* conv{n+1}_image, conv{n+1}_depth of a plain level: a stride 2 VGG block
PlainBlock(in_channels, out_channels, n_convolution) ==
    VGGNetBlock(in_channels, out_channels, n_convolution, 2)

\* "Resolution: 1/1 -> 1/2", n = 0: the attributes the constructor sets
CtorLevel0(a) ==
    IF 0 \in a.resolutions_backprojection
    THEN ("conv0_image" :> InitialExtractor(a.input_channels_image, a.n_filters_image[1]))
         @@ ("conv0_depth" :> InitialExtractor(a.input_channels_depth, a.n_filters_depth[1]))
         @@ (CBName[1] :> CalibratedBackprojectionBlock(
                 a.n_filters_image[1], a.n_filters_depth[1], a.n_filters_image[1],
                 a.n_filters_image[1], a.n_filters_depth[1], a.n_filters_fused[1],
                 a.n_convolutions_image[1], a.n_convolutions_depth[1],
                 a.n_convolutions_fused[1]))
    ELSE (ConvImageName[1] :> PlainBlock(a.input_channels_image, a.n_filters_image[1],
                                         a.n_convolutions_image[1]))
         @@ (ConvDepthName[1] :> PlainBlock(a.input_channels_depth, a.n_filters_depth[1],
                                            a.n_convolutions_depth[1]))

\* the sections n = 1 .. 4 (list index n + 1 is Python's index n)
CtorLevel(n, a) ==
    LET in_channels_image == a.n_filters_image[n]
        in_channels_depth == a.n_filters_depth[n]
        in_channels_fused ==
            IF (n - 1) \in a.resolutions_backprojection
            THEN a.n_filters_image[n] + a.n_filters_fused[n]
            ELSE a.n_filters_image[n]
    IN  IF n \in a.resolutions_backprojection
        THEN CBName[n + 1] :> CalibratedBackprojectionBlock(
                 in_channels_image, in_channels_depth, in_channels_fused,
                 a.n_filters_image[n + 1], a.n_filters_depth[n + 1],
                 a.n_filters_fused[n + 1],
                 a.n_convolutions_image[n + 1], a.n_convolutions_depth[n + 1],
                 a.n_convolutions_fused[n + 1])
        ELSE (ConvImageName[n + 1] :> PlainBlock(in_channels_image,
                                                 a.n_filters_image[n + 1],
                                                 a.n_convolutions_image[n + 1]))
             @@ (ConvDepthName[n + 1] :> PlainBlock(in_channels_depth,
                                                    a.n_filters_depth[n + 1],
                                                    a.n_convolutions_depth[n + 1]))

NoBlocks == [b \in BlockNames |-> NoBlock]

\* the attributes set by the whole constructor body after the assertions
CtorBlocks(a) ==
    LET made == CtorLevel0(a) @@ CtorLevel(1, a) @@ CtorLevel(2, a)
                @@ CtorLevel(3, a) @@ CtorLevel(4, a)
    IN  [b \in BlockNames |-> IF b \in DOMAIN made THEN made[b] ELSE NoBlock]

\* KBNetEncoder.__init__: [err, blocks]; err = "" when the object is built
KBNetEncoderInit(a) ==
    IF ~CtorAssertsHold(a)
    THEN [err |-> "AssertionError", blocks |-> NoBlocks]
    ELSE IF a.activation_func \notin RecognizedActivations
    THEN [err |-> "ValueError", blocks |-> NoBlocks]
    ELSE [err |-> "", blocks |-> CtorBlocks(a)]

-----------------------------------------------------------------------------
(* KBNetEncoder.forward *)

\* output size of a 3 x 3 convolution with padding 1 and stride 2
Half(x) == (x + 1) \div 2

OutSide(x, stride) == IF stride = 2 THEN Half(x) ELSE x

SizeNames == {"n_batch", "n_height0", "n_width0", "n_height1", "n_width1",
              "n_height2", "n_width2", "n_height3", "n_width3",
              "n_height4", "n_width4"}
HeightName == <<"n_height0", "n_height1", "n_height2", "n_height3", "n_height4">>
WidthName == <<"n_width0", "n_width1", "n_width2", "n_width3", "n_width4">>

\* the names of conv{n+1}_image, conv{n+1}_depth, conv{n+1}_fused
ImageOut == <<"conv1_image", "conv2_image", "conv3_image", "conv4_image", "conv5_image">>
DepthOut == <<"conv1_depth", "conv2_depth", "conv3_depth", "conv4_depth", "conv5_depth">>
FusedOut == <<"conv1_fused", "conv2_fused", "conv3_fused", "conv4_fused", "conv5_fused">>

NoCoordinates == [h |-> 0, w |-> 0, k |-> <<>>]

\* one logged block invocation
Call(level, attr, image, depth, fused, coordinates) ==
    [level |-> level, attr |-> attr, image |-> image, depth |-> depth,
     fused |-> fused, coordinates |-> coordinates]

\* torch.inverse(k) raises for a singular matrix
Invertible(k) == Det3(k)[1] # 0

\* mutant: a failed inversion is swallowed
camera_coordinates_NoRaise(batch, height, width, k) ==
    [err |-> "", value |-> [h |-> height, w |-> width, k |-> k]]

\* camera_coordinates(batch, height, width, k): K^-1 [x, y, 1] on a height x width
\* grid; the grid is abstracted to its size and the matrix that was inverted
camera_coordinates(batch, height, width, k) ==
    [err |-> IF Invertible(k) THEN "" ELSE "LinAlgError",
     value |-> [h |-> height, w |-> width, k |-> k]]

\* mutant: the template of a scaling matrix, zero off the scaled entries
ScaleTemplate_Zeros(scale_x, scale_y) ==
    << <<scale_x, FInt(0), scale_x>>,
       <<FInt(0), scale_y, scale_y>>,
       <<FInt(0), FInt(0), FInt(1)>> >>

\* the 3 x 3 template [[sx, 1, sx], [1, sy, sy], [1, 1, 1]]
ScaleTemplate(scale_x, scale_y) ==
    << <<scale_x, FInt(1), scale_x>>,
       <<FInt(1), scale_y, scale_y>>,
       <<FInt(1), FInt(1), FInt(1)>> >>

\* scale_intrinsics(batch, height0, width0, height1, width1, k): the parameters
\* height0 .. width1 are converted to tensors and not used again; the scale is
\* computed from forward's locals n_width1, n_width0, n_height1, n_height0 (env)
scale_intrinsics(batch, height0, width0, height1, width1, k, env) ==
    LET scale_x == Frac(env["n_width1"], env["n_width0"])
        scale_y == Frac(env["n_height1"], env["n_height0"])
    IN  Hadamard(k, ScaleTemplate(scale_x, scale_y))

\* block(x) for a Conv2d or VGGNetBlock attribute: [err, out]
ApplyConv(blocks, attr, x, out_id) ==
    LET b == blocks[attr]
    IN  IF b.kind = "absent" THEN [err |-> "AttributeError", out |-> None]
        ELSE IF x.ch # b.in_image THEN [err |-> "RuntimeError", out |-> None]
        ELSE [err |-> "",
              out |-> Tensor(out_id, b.out_image, OutSide(x.h, b.stride),
                             OutSide(x.w, b.stride))]

\* block(image, depth, coordinates, fused) for a calibrated backprojection
\* attribute: [err, image, depth, fused]
ApplyCalibrated(blocks, attr, image, depth, coordinates, fused, n) ==
    LET b == blocks[attr]
        bad == [err |-> "RuntimeError", image |-> None, depth |-> None, fused |-> None]
    IN  IF b.kind = "absent" THEN [bad EXCEPT !.err = "AttributeError"]
        ELSE IF \/ image.ch # b.in_image
                \/ depth.ch # b.in_depth
                \/ image.ch + fused.ch # b.in_fused
                \/ coordinates.h # image.h \/ coordinates.w # image.w
                \/ depth.h # image.h \/ depth.w # image.w
                \/ (fused # None /\ (fused.h # image.h \/ fused.w # image.w))
        THEN bad
        ELSE [err |-> "",
              image |-> Tensor(ImageOut[n + 1], b.out_image, Half(image.h), Half(image.w)),
              depth |-> Tensor(DepthOut[n + 1], b.out_depth, Half(image.h), Half(image.w)),
              fused |-> Tensor(FusedOut[n + 1], b.out_fused, Half(image.h), Half(image.w))]

\* mutant: a plain level always reads the image stream
PlainImageInput_AlwaysImage(prev_image, prev_fused) == prev_image

\* mutant: the test on conv{n}_fused is inverted
PlainImageInput_Inverted(prev_image, prev_fused) ==
    IF prev_fused # None THEN prev_image ELSE prev_fused

\* the input of a plain level's image block: "if conv1_fused is not None"
PlainImageInput(prev_image, prev_fused) ==
    IF prev_fused # None THEN prev_fused ELSE prev_image

\* skips{n+1} of a calibrated level and of a plain level
CalibratedSkips(image, depth, fused) == <<fused, depth>>
PlainSkips(image, depth) == <<image, depth>>

\* mutant: a plain level leaves a fused stream behind
PlainFused_Stale == Tensor("conv1_fused", 8, 1, 1)

\* conv{n+1}_fused of a plain level
PlainFused == None

\* mutant: return layers[-1], layers
ForwardReturn_NoSlice(ls) ==
    [returned |-> TRUE, bottleneck |-> ls[Len(ls)], skips |-> ls]

\* return layers[-1], layers[0:-1]
ForwardReturn(ls) ==
    [returned |-> TRUE, bottleneck |-> ls[Len(ls)], skips |-> SubSeq(ls, 1, Len(ls) - 1)]

NoResult == [returned |-> FALSE, bottleneck |-> None, skips |-> <<>>]

\* what one level of forward leaves behind
LevelResult(e, image, depth, fused, skips, newcalls, newcoords, scaled, env, bound) ==
    [err |-> e, image |-> image, depth |-> depth, fused |-> fused, skips |-> skips,
     calls |-> newcalls, coords |-> newcoords, scaled |-> scaled,
     sizes |-> env, assigned |-> bound]

\* the plain branch of a level: image block on x, depth block on d
PlainBranch(n, blocks, x, d, env, bound) ==
    LET ci == ApplyConv(blocks, ConvImageName[n + 1], x, ImageOut[n + 1])
        cd == ApplyConv(blocks, ConvDepthName[n + 1], d, DepthOut[n + 1])
        c1 == Call(n, ConvImageName[n + 1], x, None, None, NoCoordinates)
        c2 == Call(n, ConvDepthName[n + 1], None, d, None, NoCoordinates)
    IN  IF ci.err # ""
        THEN LevelResult(ci.err, None, None, None, <<>>, <<c1>>, <<>>, 0, env, bound)
        ELSE IF cd.err # ""
        THEN LevelResult(cd.err, ci.out, None, None, <<>>, <<c1, c2>>, <<>>, 0, env, bound)
        ELSE LevelResult("", ci.out, cd.out, PlainFused, PlainSkips(ci.out, cd.out),
                         <<c1, c2>>, <<>>, 0, env, bound)

\* "Resolution: 1/1 -> 1/2"
ForwardLevel0(me, in, env, bound) ==
    IF 0 \in me.resolutions_backprojection
    THEN LET env1 == [env EXCEPT !["n_batch"] = in.n,
                                 !["n_height0"] = in.image.h,
                                 !["n_width0"] = in.image.w]
             bound1 == bound \cup {"n_batch", "n_height0", "n_width0"}
             cc == camera_coordinates(in.n, in.image.h, in.image.w, in.intrinsics)
             entry == [level |-> 0, k |-> in.intrinsics, h |-> in.image.h,
                       w |-> in.image.w]
             c0i == ApplyConv(me.blocks, "conv0_image", in.image, "conv0_image")
             c0d == ApplyConv(me.blocks, "conv0_depth", in.depth, "conv0_depth")
             k1 == Call(0, "conv0_image", in.image, None, None, NoCoordinates)
             k2 == Call(0, "conv0_depth", None, in.depth, None, NoCoordinates)
             kb == Call(0, CBName[1], c0i.out, c0d.out, None, cc.value)
             cb == ApplyCalibrated(me.blocks, CBName[1], c0i.out, c0d.out,
                                   cc.value, None, 0)
         IN  IF cc.err # ""
             THEN LevelResult(cc.err, None, None, None, <<>>, <<>>, <<entry>>, 0,
                              env1, bound1)
             ELSE IF c0i.err # ""
             THEN LevelResult(c0i.err, None, None, None, <<>>, <<k1>>, <<entry>>, 0,
                              env1, bound1)
             ELSE IF c0d.err # ""
             THEN LevelResult(c0d.err, None, None, None, <<>>, <<k1, k2>>, <<entry>>, 0,
                              env1, bound1)
             ELSE LevelResult(cb.err, cb.image, cb.depth, cb.fused,
                              CalibratedSkips(cb.image, cb.depth, cb.fused),
                              <<k1, k2, kb>>, <<entry>>, 0, env1, bound1)
    ELSE PlainBranch(0, me.blocks, in.image, in.depth, env, bound)

\* the sections "Resolution: 1/2 -> 1/4" .. "Resolution: 1/16 -> 1/32" (n = 1 .. 4);
\* cb is the calibrated backprojection attribute that the section calls
ForwardLevel(n, cb, me, in, prev_image, prev_depth, prev_fused, env, bound) ==
    LET env1 == [env EXCEPT ![HeightName[n + 1]] = prev_image.h,
                            ![WidthName[n + 1]] = prev_image.w]
        bound1 == bound \cup {HeightName[n + 1], WidthName[n + 1]}
    IN  IF n \in me.resolutions_backprojection
        THEN IF ~({"n_batch", "n_height0", "n_width0"} \subseteq bound1)
             THEN LevelResult("UnboundLocalError", None, None, None, <<>>, <<>>, <<>>,
                              0, env1, bound1)
             ELSE LET kn == scale_intrinsics(env1["n_batch"], env1["n_height0"],
                                             env1["n_width0"], env1[HeightName[n + 1]],
                                             env1[WidthName[n + 1]], in.intrinsics, env1)
                      cc == camera_coordinates(env1["n_batch"], env1[HeightName[n + 1]],
                                               env1[WidthName[n + 1]], kn)
                      entry == [level |-> n, k |-> kn, h |-> env1[HeightName[n + 1]],
                                w |-> env1[WidthName[n + 1]]]
                      kb == Call(n, cb, prev_image, prev_depth, prev_fused, cc.value)
                      r == ApplyCalibrated(me.blocks, cb, prev_image, prev_depth,
                                           cc.value, prev_fused, n)
                  IN  IF cc.err # ""
                      THEN LevelResult(cc.err, None, None, None, <<>>, <<>>, <<entry>>,
                                       1, env1, bound1)
                      ELSE IF r.err = "AttributeError"
                      THEN LevelResult(r.err, None, None, None, <<>>, <<>>, <<entry>>,
                                       1, env1, bound1)
                      ELSE LevelResult(r.err, r.image, r.depth, r.fused,
                                       CalibratedSkips(r.image, r.depth, r.fused),
                                       <<kb>>, <<entry>>, 1, env1, bound1)
        ELSE PlainBranch(n, me.blocks, PlainImageInput(prev_image, prev_fused),
                         prev_depth, env1, bound1)

-----------------------------------------------------------------------------
(* MultiScaleDecoder.__init__ *)

\* n_filters of the decoder has 1 .. MaxFilters entries
MaxFilters == 8

\* the attribute names deconv{j}, output{j}, and the locals upsample_output{j}
DeconvName == <<"deconv0", "deconv1", "deconv2", "deconv3", "deconv4", "deconv5",
                "deconv6">>
OutputName == <<"output0", "output1", "output2", "output3">>
UpsampleName == <<"upsample_output1", "upsample_output2", "upsample_output3">>

DecoderAttrs == {DeconvName[i] : i \in 1..7} \cup {OutputName[i] : i \in 1..4}

\* an attribute of the decoder that was never set, and one that was set to None
AbsentAttr == [kind |-> "absent", in |-> 0, skip |-> 0, out |-> 0, act |-> ""]
NoneAttr == [kind |-> "None", in |-> 0, skip |-> 0, out |-> 0, act |-> ""]

\* net_utils.DecoderBlock(in_channels, skip_channels, out_channels, activation_func)
DecoderBlock(in_channels, skip_channels, out_channels, activation_func) ==
    [kind |-> "DecoderBlock", in |-> in_channels, skip |-> skip_channels,
     out |-> out_channels, act |-> activation_func]

\* net_utils.Conv2d(out_channels, output_channels, kernel_size=3, stride=1,
\* activation_func): a prediction head
OutputConv2d(in_channels, out_channels, activation_func) ==
    [kind |-> "Conv2d", in |-> in_channels, skip |-> 0, out |-> out_channels,
     act |-> activation_func]

\* "upsample" in self.output_func, for the names the model draws
HasUpsample(output_func) == output_func \in {"upsample"}

\* mutant: the constructor keeps the n_resolution it was given
StoredResolution_AsGiven(n_resolution, output_func) == n_resolution

\* self.n_resolution after the constructor: "Upsampling from lower to full
\* resolution requires multi-scale"
StoredResolution(n_resolution, output_func) ==
    IF HasUpsample(output_func) /\ n_resolution < 2 THEN 2 ELSE n_resolution

\* assert network_depth < 8; assert n_resolution > 0 and n_resolution < network_depth
DecoderAssertsHold(a) ==
    /\ Len(a.n_filters) < 8
    /\ a.n_resolution > 0 /\ a.n_resolution < Len(a.n_filters)

\* the running values of the constructor: filter_idx, in_channels, skip_channels,
\* out_channels, and the attributes set so far
CtorState(filter_idx, in_channels, skip_channels, out_channels, attrs) ==
    [filter_idx |-> filter_idx, in |-> in_channels, skip |-> skip_channels,
     out |-> out_channels, attrs |-> attrs]

\* filter_idx = filter_idx + 1; in_channels, skip_channels, out_channels =
\* n_filters[filter_idx - 1], n_skips[filter_idx], n_filters[filter_idx]; extra is
\* the "skip_channels = skip_channels + output_channels" that may follow
CtorAdvance(st, a, extra, attrs) ==
    CtorState(st.filter_idx + 1, a.n_filters[st.filter_idx + 1],
              a.n_skips[st.filter_idx + 2] + extra, a.n_filters[st.filter_idx + 2],
              attrs)

\* the sections of deconv6, deconv5, deconv4 (j = 6, 5, 4): "if network_depth > j"
CtorDeconvPlain(j, st, a) ==
    IF Len(a.n_filters) > j
    THEN CtorAdvance(st, a, 0,
             st.attrs @@ (DeconvName[j + 1] :>
                 DecoderBlock(st.in, st.skip, st.out, a.activation_func)))
    ELSE [st EXCEPT !.attrs = @ @@ (DeconvName[j + 1] :> NoneAttr)]

\* deconv{j} and output{j} of the sections j = 3, 2, 1; act is the head's activation
CtorDeconvAndHead(j, st, a, n_resolution, act) ==
    (DeconvName[j + 1] :> DecoderBlock(st.in, st.skip, st.out, a.activation_func))
    @@ (OutputName[j + 1] :>
            IF n_resolution > j
            THEN OutputConv2d(st.out, a.output_channels, act)
            ELSE NoneAttr)

\* the sections of deconv3 and deconv2 (j = 3, 2): "if network_depth > j"
CtorDeconvHead(j, st, a, n_resolution, act) ==
    IF Len(a.n_filters) > j
    THEN CtorAdvance(st, a, IF n_resolution > j THEN a.output_channels ELSE 0,
             st.attrs @@ CtorDeconvAndHead(j, st, a, n_resolution, act))
    ELSE [st EXCEPT !.attrs = @ @@ (DeconvName[j + 1] :> NoneAttr)]

\* the section of deconv1 and output1, which is unconditional
CtorDeconv1(st, a, n_resolution) ==
    CtorAdvance(st, a, IF n_resolution > 1 THEN a.output_channels ELSE 0,
        st.attrs @@ CtorDeconvAndHead(1, st, a, n_resolution, a.output_func))

\* the section of deconv0 and output0
CtorDeconv0(st, a) ==
    st.attrs
    @@ (DeconvName[1] :> DecoderBlock(st.in, st.skip, st.out, a.activation_func))
    @@ (OutputName[1] :> OutputConv2d(st.out, a.output_channels, a.output_func))

\* the attributes the constructor sets; output3 has activation_func=None
DecoderCtorAttrs(a, n_resolution) ==
    LET s0 == CtorState(0, a.input_channels, a.n_skips[1], a.n_filters[1], <<>>)
        s6 == CtorDeconvPlain(6, s0, a)
        s5 == CtorDeconvPlain(5, s6, a)
        s4 == CtorDeconvPlain(4, s5, a)
        s3 == CtorDeconvHead(3, s4, a, n_resolution, "None")
        s2 == CtorDeconvHead(2, s3, a, n_resolution, a.output_func)
        s1 == CtorDeconv1(s2, a, n_resolution)
        made == CtorDeconv0(s1, a)
    IN  [b \in DecoderAttrs |-> IF b \in DOMAIN made THEN made[b] ELSE AbsentAttr]

NoDecoder == [n_resolution |-> 0, output_func |-> "",
              attrs |-> [b \in DecoderAttrs |-> AbsentAttr]]

\* MultiScaleDecoder.__init__: [err, me]; err = "" when the object is built.
\* n_skips[filter_idx] is read for filter_idx = 0 .. network_depth - 1
MultiScaleDecoderInit(a) ==
    IF ~DecoderAssertsHold(a)
    THEN [err |-> "AssertionError", me |-> NoDecoder]
    ELSE IF a.activation_func \notin RecognizedActivations
            \/ a.output_func \notin RecognizedActivations
    THEN [err |-> "ValueError", me |-> NoDecoder]
    ELSE IF Len(a.n_skips) < Len(a.n_filters)
    THEN [err |-> "IndexError", me |-> NoDecoder]
    ELSE LET n_resolution == StoredResolution(a.n_resolution, a.output_func)
         IN  [err |-> "",
              me |-> [n_resolution |-> n_resolution, output_func |-> a.output_func,
                      attrs |-> DecoderCtorAttrs(a, n_resolution)]]

-----------------------------------------------------------------------------
(* MultiScaleDecoder.forward *)

\* a local that was not assigned
Unbound == Tensor("unbound", 0, 0, 0)

\* shape=None
NoShape == <<>>

\* seq[n] of a Python list: a negative n counts from the end
PyIndex(seq, n) ==
    IF n >= 0 /\ n < Len(seq) THEN [err |-> "", value |-> seq[n + 1]]
    ELSE IF n < 0 /\ -n <= Len(seq) THEN [err |-> "", value |-> seq[Len(seq) + n + 1]]
    ELSE [err |-> "IndexError", value |-> None]

\* one logged invocation of a decode block or a head: the attribute, its input,
\* its skip argument, the index n and the entry skips[n] read for it, its shape
\* argument
DCall(attr, x, skip, n, entry, shape) ==
    [attr |-> attr, x |-> x, skip |-> skip, n |-> n, entry |-> entry, shape |-> shape]

\* block(x, skip, shape) of a net_utils.DecoderBlock: upsamples x to the size of
\* skip, else to shape, else by 2, and fuses skip when there is one: [err, out]
ApplyDecoder(b, attr, x, skip, shape) ==
    IF x.ch # b.in \/ (skip # None /\ skip.ch # b.skip)
    THEN [err |-> "RuntimeError", out |-> None]
    ELSE [err |-> "",
          out |-> IF skip # None THEN Tensor(attr, b.out, skip.h, skip.w)
                  ELSE IF shape # NoShape THEN Tensor(attr, b.out, shape[1], shape[2])
                  ELSE Tensor(attr, b.out, 2 * x.h, 2 * x.w)]

\* head(x) of a prediction head: [err, out]
ApplyHead(b, attr, x) ==
    IF x.ch # b.in THEN [err |-> "RuntimeError", out |-> None]
    ELSE [err |-> "", out |-> Tensor(attr, b.out, x.h, x.w)]

\* torch.cat([a, b], dim=1) raises when the spatial sizes differ: [err, value]
TorchCat(a, b) ==
    IF a.h # b.h \/ a.w # b.w THEN [err |-> "RuntimeError", value |-> None]
    ELSE [err |-> "", value |-> Cat(a, b)]

\* "if n > 0": interpolate to size=skips[n - 1].shape[-2:], else scale_factor=2
Interpolate(id, output, skips, n) ==
    IF n > 0
    THEN LET finer == PyIndex(skips, n - 1).value
         IN  IF finer = None THEN [err |-> "AttributeError", value |-> Unbound]
             ELSE [err |-> "", value |-> Tensor(id, output.ch, finer.h, finer.w)]
    ELSE [err |-> "", value |-> Tensor(id, output.ch, 2 * output.h, 2 * output.w)]

\* what one section of forward leaves behind
StageResult(e, ls, outs, n, up, newcalls) ==
    [err |-> e, layers |-> ls, outputs |-> outs, n |-> n, up |-> up, calls |-> newcalls]

\* the sections of deconv6, deconv5, deconv4: "if self.deconv{j} is not None"
StagePlain(j, me, in, ls, outs, n, up) ==
    LET b == me.attrs[DeconvName[j + 1]]
        s == PyIndex(in.skips, n)
        r == ApplyDecoder(b, DeconvName[j + 1], ls[Len(ls)], s.value, NoShape)
        c == DCall(DeconvName[j + 1], ls[Len(ls)], s.value, n, s.value, NoShape)
    IN  IF b.kind = "None" THEN StageResult("", ls, outs, n, up, <<>>)
        ELSE IF s.err # "" THEN StageResult(s.err, ls, outs, n, up, <<>>)
        ELSE IF r.err # "" THEN StageResult(r.err, ls, outs, n, up, <<c>>)
        ELSE StageResult("", Append(ls, r.out), outs, n - 1, up, <<c>>)

\* mutant: the upsampled prediction replaces the skip entry
SkipArgument_UpsampleOnly(entry, n_resolution, j, up) ==
    [err |-> "", value |-> IF n_resolution > j + 1 THEN up[UpsampleName[j + 1]] ELSE entry]

\* the skip argument of deconv{j} (j = 2, 1): "if skips[n] is not None", the entry
\* concatenated with upsample_output{j + 1} "if self.n_resolution > j + 1";
\* otherwise the entry
SkipArgument(entry, n_resolution, j, up) ==
    IF entry # None /\ n_resolution > j + 1
    THEN IF up[UpsampleName[j + 1]] = Unbound
         THEN [err |-> "UnboundLocalError", value |-> None]
         ELSE TorchCat(entry, up[UpsampleName[j + 1]])
    ELSE [err |-> "", value |-> entry]

\* output{j} = self.output{j}(layers[-1]), outputs.append, upsample_output{j}
\* (j = 3, 2, 1), after the decode block has run; step is what the section
\* subtracts from n
HeadAndUpsample(j, me, in, ls, outs, n, up, step, newcalls) ==
    LET h == ApplyHead(me.attrs[OutputName[j + 1]], OutputName[j + 1], ls[Len(ls)])
        c == DCall(OutputName[j + 1], ls[Len(ls)], None, n, None, NoShape)
        u == Interpolate(UpsampleName[j], h.out, in.skips, n)
    IN  IF ~(me.n_resolution > j) THEN StageResult("", ls, outs, n - step, up, newcalls)
        ELSE IF me.attrs[OutputName[j + 1]].kind # "Conv2d"
        THEN StageResult("TypeError", ls, outs, n, up, newcalls)
        ELSE IF h.err # "" THEN StageResult(h.err, ls, outs, n, up, Append(newcalls, c))
        ELSE IF u.err # ""
        THEN StageResult(u.err, ls, Append(outs, h.out), n, up, Append(newcalls, c))
        ELSE StageResult("", ls, Append(outs, h.out), n - step,
                         [up EXCEPT ![UpsampleName[j]] = u.value], Append(newcalls, c))

\* the section of deconv3: the block takes skips[n] as it is
Stage3(me, in, ls, outs, n, up) ==
    LET b == me.attrs[DeconvName[4]]
        s == PyIndex(in.skips, n)
        r == ApplyDecoder(b, DeconvName[4], ls[Len(ls)], s.value, NoShape)
        c == DCall(DeconvName[4], ls[Len(ls)], s.value, n, s.value, NoShape)
    IN  IF b.kind = "None" THEN StageResult("", ls, outs, n, up, <<>>)
        ELSE IF s.err # "" THEN StageResult(s.err, ls, outs, n, up, <<>>)
        ELSE IF r.err # "" THEN StageResult(r.err, ls, outs, n, up, <<c>>)
        ELSE HeadAndUpsample(3, me, in, Append(ls, r.out), outs, n, up, 1, <<c>>)

\* the sections of deconv2 (guarded by "if self.deconv2 is not None", n = n - 1 at
\* its end) and of deconv1 (unguarded, n is left for the last section)
StageFused(j, me, in, ls, outs, n, up) ==
    LET b == me.attrs[DeconvName[j + 1]]
        s == PyIndex(in.skips, n)
        k == SkipArgument(s.value, me.n_resolution, j, up)
        r == ApplyDecoder(b, DeconvName[j + 1], ls[Len(ls)], k.value, NoShape)
        c == DCall(DeconvName[j + 1], ls[Len(ls)], k.value, n, s.value, NoShape)
    IN  IF b.kind = "None" THEN StageResult("", ls, outs, n, up, <<>>)
        ELSE IF s.err # "" THEN StageResult(s.err, ls, outs, n, up, <<>>)
        ELSE IF k.err # "" THEN StageResult(k.err, ls, outs, n, up, <<>>)
        ELSE IF r.err # "" THEN StageResult(r.err, ls, outs, n, up, <<c>>)
        ELSE HeadAndUpsample(j, me, in, Append(ls, r.out), outs, n, up,
                             IF j = 2 THEN 1 ELSE 0, <<c>>)

\* deconv0(layers[-1], skip) and output0 = self.output0(layers[-1])
FinestDecode(me, ls, outs, n, up, entry, skip, shape) ==
    LET r == ApplyDecoder(me.attrs[DeconvName[1]], DeconvName[1], ls[Len(ls)], skip, shape)
        c == DCall(DeconvName[1], ls[Len(ls)], skip, n, entry, shape)
        h == ApplyHead(me.attrs[OutputName[1]], OutputName[1], r.out)
        c0 == DCall(OutputName[1], r.out, None, n, None, NoShape)
    IN  IF r.err # "" THEN StageResult(r.err, ls, outs, n, up, <<c>>)
        ELSE IF h.err # "" THEN StageResult(h.err, Append(ls, r.out), outs, n, up, <<c, c0>>)
        ELSE StageResult("", Append(ls, r.out), Append(outs, h.out), n, up, <<c, c0>>)

\* mutant: the upsample mode decodes the finest level like the other modes
BypassFinest_Never(output_func) == FALSE

\* "if 'upsample' in self.output_func": output0 = upsample_output1
BypassFinest(output_func) == HasUpsample(output_func)

\* the last section, "Resolution 1/2 -> 1/1": n = n - 1, then output0 and
\* outputs.append(output0)
Stage0(me, in, ls, outs, n_before, up) ==
    LET n == n_before - 1
        up1 == up[UpsampleName[1]]
        s == PyIndex(in.skips, n)
        at0 == s.value # None /\ n = 0
        k == IF at0 THEN TorchCat(s.value, up1) ELSE [err |-> "", value |-> up1]
    IN  IF BypassFinest(me.output_func)
        THEN IF up1 = Unbound THEN StageResult("UnboundLocalError", ls, outs, n, up, <<>>)
             ELSE StageResult("", ls, Append(outs, up1), n, up, <<>>)
        ELSE IF s.err # "" THEN StageResult(s.err, ls, outs, n, up, <<>>)
        ELSE IF me.n_resolution > 1
        THEN IF up1 = Unbound THEN StageResult("UnboundLocalError", ls, outs, n, up, <<>>)
             ELSE IF k.err # "" THEN StageResult(k.err, ls, outs, n, up, <<>>)
             ELSE FinestDecode(me, ls, outs, n, up, s.value, k.value, NoShape)
        ELSE IF at0 THEN FinestDecode(me, ls, outs, n, up, s.value, s.value, NoShape)
        ELSE IF in.shape = NoShape THEN StageResult("TypeError", ls, outs, n, up, <<>>)
        ELSE FinestDecode(me, ls, outs, n, up, s.value, None, in.shape)

-----------------------------------------------------------------------------
(* The arguments the model draws for the decoder *)

\* a decreasing list of d filter counts, as in the default [256, 128, 64, 32, 16]
FiltersOfDepth(d) == [i \in 1..d |-> 8 * (d - i + 1)]

\* n_skips for depth d: with a last entry 0 (no skip at the finest level, as in
\* the default), with the last two entries 0, with d positive entries, and one
\* entry short
SkipsOfDepth(d) ==
    { [i \in 1..d |-> IF i = d THEN 0 ELSE 4 * (d - i + 1)],
      [i \in 1..d |-> IF i >= d - 1 THEN 0 ELSE 4 * (d - i + 1)],
      [i \in 1..d |-> 4 * (d - i + 1)],
      [i \in 1..(d - 1) |-> 4 * (d - i + 1)] }

OutputFuncs == {"linear", "leaky_relu", "upsample", "tanhh"}

DecoderArgs ==
    UNION { { [input_channels |-> 8 * (d + 1), output_channels |-> 1,
               n_resolution |-> r, n_filters |-> FiltersOfDepth(d), n_skips |-> sk,
               activation_func |-> "leaky_relu", output_func |-> o] :
              r \in 0..MaxFilters, sk \in SkipsOfDepth(d), o \in OutputFuncs } :
            d \in 1..MaxFilters }

NoDecoderArgs == [input_channels |-> 0, output_channels |-> 0, n_resolution |-> 0,
                  n_filters |-> <<>>, n_skips |-> <<>>, activation_func |-> "",
                  output_func |-> ""]

\* the side of the feature map j halvings below a full-resolution side
RECURSIVE HalfN(_, _)
HalfN(x, j) == IF j = 0 THEN x ELSE HalfN(Half(x), j - 1)

\* full-resolution heights and widths: all levels even, and odd levels
FullSizes == { <<40, 24>>, <<5, 3>> }

SkipId == <<"skip0", "skip1", "skip2", "skip3", "skip4", "skip5", "skip6", "skip7",
            "skip8", "skip9">>

\* a skip list of len entries for a decoder built from a: entry i (Python index
\* i - 1) is at the resolution of the block that consumes it and has the channels
\* that block was declared with (4 where it was declared with none); the entry at
\* index none, if any, is None
SkipList(a, len, hw, none) ==
    LET d == Len(a.n_filters)
        declared(i) == a.n_skips[len - i + 1]
    IN  [i \in 1..len |->
            IF i = none THEN None
            ELSE Tensor(SkipId[i], IF declared(i) = 0 THEN 4 ELSE declared(i),
                        HalfN(hw[1], d - len + i - 1), HalfN(hw[2], d - len + i - 1))]

\* the forward calls made on a decoder built from a: len(skips) is network_depth,
\* one less or two less
DecoderInputs(a) ==
    LET d == Len(a.n_filters)
    IN  UNION { { [x |-> Tensor("x", a.input_channels, HalfN(hw[1], d), HalfN(hw[2], d)),
                   skips |-> SkipList(a, len, hw, none),
                   shape |-> sh] :
                  none \in 0..len, sh \in {NoShape, hw} } :
                len \in {d - 2, d - 1, d} \cap Nat, hw \in FullSizes }

NoDecoderInputs == [x |-> None, skips |-> <<>>, shape |-> NoShape]

NoUpsamples == [u \in {UpsampleName[i] : i \in 1..3} |-> Unbound]

\* the decoder before its construction
DecoderIdle ==
    /\ d_pc = "new"
    /\ d_args = NoDecoderArgs
    /\ d_self = NoDecoder
    /\ d_in = NoDecoderInputs
    /\ d_layers = <<>>
    /\ d_outputs = <<>>
    /\ d_n = 0
    /\ d_up = NoUpsamples
    /\ d_calls = <<>>
    /\ d_result = <<>>
    /\ d_err = ""

-----------------------------------------------------------------------------
(* The constructors of ResNetEncoder, AtrousResNetEncoder, VGGNetEncoder and
   AtrousVGGNetEncoder, up to the call of net_utils.activation_func *)

\* n_layer ranges over 0 .. MaxLayer
MaxLayer == 51

\* list + [list[-1]] repeated count times (count <= 0: the list itself)
RECURSIVE Extend(_, _)
Extend(list, count) ==
    IF count <= 0 THEN list ELSE Extend(Append(list, list[Len(list)]), count - 1)

\* "if n_layer == 18 ... elif n_layer == 34 ... elif n_layer == 50 ... else raise"
ResNetBlocks(n_layer) ==
    IF n_layer = 18 THEN <<2, 2, 2, 2>>
    ELSE IF n_layer = 34 THEN <<3, 4, 6, 3>>
    ELSE IF n_layer = 50 THEN <<3, 4, 6, 3>>
    ELSE <<>>

\* "if n_layer == 18 ... elif n_layer == 34 ... else raise"
AtrousResNetBlocks(n_layer) ==
    IF n_layer = 18 THEN <<2, 2, 2, 2>>
    ELSE IF n_layer = 34 THEN <<3, 4, 6, 3>>
    ELSE <<>>

\* mutant: every n_layer other than 8 and 11 is built as the 13 layer architecture
VGGNetConvolutions_Default13(n_layer) ==
    IF n_layer = 8 THEN <<1, 1, 1, 1, 1>>
    ELSE IF n_layer = 11 THEN <<1, 1, 2, 2, 2>>
    ELSE <<2, 2, 2, 2, 2>>

\* "if n_layer == 8 ... elif n_layer == 11 ... elif n_layer == 13 ... else raise"
VGGNetConvolutions(n_layer) ==
    IF n_layer = 8 THEN <<1, 1, 1, 1, 1>>
    ELSE IF n_layer = 11 THEN <<1, 1, 2, 2, 2>>
    ELSE IF n_layer = 13 THEN <<2, 2, 2, 2, 2>>
    ELSE <<>>

\* AtrousResNetEncoder.__init__: "dilation = 2", passed to the first block of
\* blocks4 and doubled there, then passed to the first block of blocks5: the
\* dilation arguments of the fourth and of the fifth stage
AtrousResNetDilations(n_blocks) ==
    LET dilation == 2
        doubled == IF n_blocks[3] > 0 THEN dilation * 2 ELSE dilation
    IN  <<dilation, doubled>>

\* AtrousVGGNetEncoder.__init__: "dilation = 2", passed to conv4 and to conv5
AtrousVGGNetDilations(n_convolutions) ==
    LET dilation == 2
    IN  <<dilation, dilation>>

\* the outcome of a constructor call: the class, the arguments, the exception
\* ("" when the object is built), the list n_blocks or n_convolutions in use and,
\* for an atrous encoder, the dilations of its fourth and fifth stage
Built(cls, a, e, stack) ==
    [cls |-> cls, n_layer |-> a.n_layer, n_filters |-> a.n_filters,
     activation_func |-> a.activation_func, err |-> e, stack |-> stack,
     dilations |-> IF e # "" THEN <<>>
                   ELSE IF cls = "AtrousResNetEncoder" THEN AtrousResNetDilations(stack)
                   ELSE IF cls = "AtrousVGGNetEncoder" THEN AtrousVGGNetDilations(stack)
                   ELSE <<>>]

\* the checks after the list of the architecture was chosen: the assertion on
\* len(n_filters), then net_utils.activation_func
CheckedBuild(cls, a, chosen, stack, expected) ==
    IF chosen = <<>> THEN Built(cls, a, "ValueError", <<>>)
    ELSE IF Len(a.n_filters) # expected THEN Built(cls, a, "AssertionError", <<>>)
    ELSE IF a.activation_func \notin RecognizedActivations
    THEN Built(cls, a, "ValueError", <<>>)
    ELSE Built(cls, a, "", stack)

\* ResNetEncoder.__init__: n_blocks grows by len(n_filters) - len(n_blocks) - 1
\* entries; assert len(n_filters) == len(n_blocks) + 1
ResNetEncoderInit(a) ==
    LET chosen == ResNetBlocks(a.n_layer)
        n_blocks == Extend(chosen, Len(a.n_filters) - Len(chosen) - 1)
    IN  CheckedBuild("ResNetEncoder", a, chosen, n_blocks, Len(n_blocks) + 1)

\* AtrousResNetEncoder.__init__: assert len(n_filters) == len(n_blocks) + 1
AtrousResNetEncoderInit(a) ==
    LET n_blocks == AtrousResNetBlocks(a.n_layer)
    IN  CheckedBuild("AtrousResNetEncoder", a, n_blocks, n_blocks, Len(n_blocks) + 1)

\* VGGNetEncoder.__init__: n_convolutions grows by
\* len(n_filters) - len(n_convolutions) - 1 entries;
\* assert len(n_filters) == len(n_convolutions)
VGGNetEncoderInit(a) ==
    LET chosen == VGGNetConvolutions(a.n_layer)
        n_convolutions == Extend(chosen, Len(a.n_filters) - Len(chosen) - 1)
    IN  CheckedBuild("VGGNetEncoder", a, chosen, n_convolutions, Len(n_convolutions))

\* VGGNetEncoder.__init__, conv6 (j = 6) and conv7 (j = 7): filter_idx is j - 1
\* there, and the stage is built "if filter_idx < len(n_filters)", else None
VGGNetHasStage(n_filters, j) == j - 1 < Len(n_filters)

\* VGGNetEncoder.forward: layers = [x] and the outputs of conv1 .. conv5, of conv6
\* and of conv7 when they are not None; the number of entries of layers[1:-1]
VGGNetForwardSkips(n_filters) ==
    LET n_layers == 1 + 5 + (IF VGGNetHasStage(n_filters, 6) THEN 1 ELSE 0)
                          + (IF VGGNetHasStage(n_filters, 7) THEN 1 ELSE 0)
    IN  n_layers - 2

\* AtrousVGGNetEncoder.__init__: assert len(n_filters) == len(n_convolutions)
AtrousVGGNetEncoderInit(a) ==
    LET n_convolutions == VGGNetConvolutions(a.n_layer)
    IN  CheckedBuild("AtrousVGGNetEncoder", a, n_convolutions, n_convolutions,
                     Len(n_convolutions))

\* the arguments the model draws: every n_layer, n_filters of 4 to 7 entries
EncoderArgs ==
    [n_layer : 0..MaxLayer,
     n_filters : {[i \in 1..len |-> 32] : len \in 4..7},
     activation_func : {"leaky_relu", "tanhh"}]

NoEncoder == [cls |-> "", n_layer |-> 0, n_filters |-> <<>>, activation_func |-> "",
              err |-> "", stack |-> <<>>, dilations |-> <<>>]

-----------------------------------------------------------------------------
(* SparseToDensePool *)

\* the depth maps the model draws are PoolSide pixels wide
PoolSide == 4

\* a one-channel map: its height, its width and its values by <<row, column>>
Map(h, w, v) == [h |-> h, w |-> w, v |-> v]

NoMap == Map(0, 0, <<>>)

Pixels(h, w) == (1..h) \X (1..w)

\* the greatest element of a non-empty set of integers
SetMax(S) == CHOOSE m \in S : \A x \in S : x <= m

\* the input rows (columns) under the kernel at output row (column) i: the
\* kernel starts padding cells before the input; padded cells never win a max
Window(i, kernel_size, padding, side) ==
    { r \in 1..side : r >= i - padding /\ r <= i - padding + kernel_size - 1 }

\* torch.nn.MaxPool2d(kernel_size=s, stride=1, padding=padding) as built by the
\* constructor
MaxPool2d(s, padding) == [kernel_size |-> s, stride |-> 1, padding |-> padding]

\* pool(m): a map of height h + 2 * padding - kernel_size + 1 (width likewise)
ApplyMaxPool(pool, m) ==
    LET oh == m.h + 2 * pool.padding - pool.kernel_size + 1
        ow == m.w + 2 * pool.padding - pool.kernel_size + 1
    IN  Map(oh, ow,
            [p \in Pixels(oh, ow) |->
                SetMax({ m.v[q] : q \in Window(p[1], pool.kernel_size, pool.padding, m.h)
                                       \X Window(p[2], pool.kernel_size, pool.padding, m.w) })])

\* padding = s // 2
PoolPadding(s) == s \div 2

\* [s for s in pool_sizes if s > 1]
KeptSizes(pool_sizes) == SelectSeq(pool_sizes, LAMBDA s : s > 1)

\* the pools of a list of kept sizes
PoolsOf(kept) == [i \in 1..Len(kept) |-> MaxPool2d(kept[i], PoolPadding(kept[i]))]

\* SparseToDensePool.__init__: the attributes; pool_convs maps len_pool_sizes
\* channels to n_filter, conv maps n_filter + input_channels to n_filter
SparseToDensePoolInit(a) ==
    LET mins == KeptSizes(a.min_pool_sizes)
        maxs == KeptSizes(a.max_pool_sizes)
    IN  [err |-> IF a.activation_func \in RecognizedActivations THEN "" ELSE "ValueError",
         me |-> [min_pool_sizes |-> mins, max_pool_sizes |-> maxs,
                 min_pools |-> PoolsOf(mins), max_pools |-> PoolsOf(maxs),
                 len_pool_sizes |-> Len(mins) + Len(maxs),
                 n_filter |-> a.n_filter,
                 conv_in |-> a.n_filter + a.input_channels]]

NoPool == [min_pool_sizes |-> <<>>, max_pool_sizes |-> <<>>, min_pools |-> <<>>,
           max_pools |-> <<>>, len_pool_sizes |-> 0, n_filter |-> 0, conv_in |-> 0]

\* torch.where(z == 0, -999 * torch.ones_like(z), -z)
MaskZeros(z) == Map(z.h, z.w, [p \in Pixels(z.h, z.w) |-> IF z.v[p] = 0 THEN -999 ELSE -z.v[p]])

\* -m
Negate(m) == Map(m.h, m.w, [p \in Pixels(m.h, m.w) |-> -m.v[p]])

\* two sizes broadcast together when they agree or one of them is 1
Broadcasts(a, b) == a = b \/ a = 1 \/ b = 1

\* torch.where(z_pool == 999, torch.zeros_like(z), z_pool): [err, value]; the
\* pooled map is never smaller than z, so the result has its size
RemoveSentinel(z_pool, z) ==
    IF ~(Broadcasts(z_pool.h, z.h) /\ Broadcasts(z_pool.w, z.w))
    THEN [err |-> "RuntimeError", value |-> NoMap]
    ELSE [err |-> "",
          value |-> Map(z_pool.h, z_pool.w,
                        [p \in Pixels(z_pool.h, z_pool.w) |->
                            IF z_pool.v[p] = 999 THEN 0 ELSE z_pool.v[p]])]

\* one entry of pool_pyramid: which loop made it, its pool size, the map
Pooled(kind, s, m) == [kind |-> kind, s |-> s, map |-> m]

\* the body of the first loop for one pool
MinPool(pool, z) == RemoveSentinel(Negate(ApplyMaxPool(pool, MaskZeros(z))), z)

\* the first loop, from pool number i on: [err, pyramid]
RECURSIVE MinPools(_, _, _, _)
MinPools(me, z, i, pyramid) ==
    IF i > Len(me.min_pools) THEN [err |-> "", pyramid |-> pyramid]
    ELSE LET r == MinPool(me.min_pools[i], z)
         IN  IF r.err # "" THEN [err |-> r.err, pyramid |-> pyramid]
             ELSE MinPools(me, z, i + 1,
                           Append(pyramid, Pooled("min", me.min_pool_sizes[i], r.value)))

\* the second loop: z_pool = pool(z)
MaxPools(me, z, pyramid) ==
    pyramid \o [i \in 1..Len(me.max_pools) |->
                   Pooled("max", me.max_pool_sizes[i], ApplyMaxPool(me.max_pools[i], z))]

\* torch.cat(pool_pyramid, dim=1), self.pool_convs, torch.cat([pool_convs, x],
\* dim=1), self.conv: [err, out]
PoolCombine(me, x, pyramid) ==
    IF \/ pyramid = <<>>
       \/ \E i \in 1..Len(pyramid) : pyramid[i].map.h # pyramid[1].map.h
                                     \/ pyramid[i].map.w # pyramid[1].map.w
       \/ Len(pyramid) # me.len_pool_sizes
       \/ pyramid[1].map.h # x.h \/ pyramid[1].map.w # x.w
       \/ me.n_filter + x.ch # me.conv_in
    THEN [err |-> "RuntimeError", out |-> None]
    ELSE [err |-> "", out |-> Tensor("conv", me.n_filter, x.h, x.w)]

\* the pool sizes the model draws: odd, even, 1 and none
PoolSizeLists == { <<3>>, <<1, 3, 5>>, <<2>>, <<>> }

PoolArgs ==
    [input_channels : {2}, min_pool_sizes : PoolSizeLists,
     max_pool_sizes : PoolSizeLists \ {<<1, 3, 5>>}, n_filter : {8},
     activation_func : {"leaky_relu"}]

\* depth values: small ones, the value 999 and a greater one
DepthValues == {1, 2, 999, 1000}

\* the maps of a size with at most two nonzero pixels
SparseMaps(h, w) ==
    { Map(h, w, [p \in Pixels(h, w) |-> IF p = a THEN va ELSE IF p = b THEN vb ELSE 0]) :
        a \in Pixels(h, w), b \in Pixels(h, w),
        va \in DepthValues \cup {0}, vb \in DepthValues \cup {0} }

\* the inputs x: channel 0 is the sparse depth map z
PoolInputs ==
    { [ch |-> 2, h |-> z.h, w |-> z.w, z |-> z] :
        z \in SparseMaps(PoolSide, PoolSide) \cup SparseMaps(2, PoolSide)
              \cup SparseMaps(1, 1) }

NoPoolInput == [ch |-> 0, h |-> 0, w |-> 0, z |-> NoMap]

\* the pool before its construction
PoolIdle ==
    /\ p_pc = "new"
    /\ p_self = NoPool
    /\ p_x = NoPoolInput
    /\ p_pyramid = <<>>
    /\ p_result = None
    /\ p_err = ""

-----------------------------------------------------------------------------
(* The arguments the model draws *)

\* input_channels_image=3, input_channels_depth=1
input_channels_image == 3
input_channels_depth == 1

\* per-level filter lists with 5 entries: the two defaults, and one whose
\* levels 2 and 3 agree and differ from level 4
GoodFilterLists == { <<48, 96, 192, 384, 384>>, <<16, 32, 64, 128, 128>>,
                     <<8, 8, 16, 16, 32>> }
\* lists that are too short and too long
BadFilterLists == { <<48, 96, 192, 384>>, <<16, 32, 64, 128, 128, 128>> }
FilterLists == GoodFilterLists \cup BadFilterLists

ConvolutionLists == { <<1, 1, 1, 1, 1>>, <<1, 1, 1, 1>>, <<1, 1, 1, 1, 1, 1>> }

Activations == {"leaky_relu", "tanhh"}

CtorArgs ==
    [input_channels_image : {input_channels_image},
     input_channels_depth : {input_channels_depth},
     n_filters_image : FilterLists,
     n_filters_depth : FilterLists,
     n_filters_fused : FilterLists,
     n_convolutions_image : ConvolutionLists,
     n_convolutions_depth : ConvolutionLists,
     n_convolutions_fused : ConvolutionLists,
     resolutions_backprojection : SUBSET Levels,
     activation_func : Activations]

NoArgs == [input_channels_image |-> 0, input_channels_depth |-> 0,
           n_filters_image |-> <<>>, n_filters_depth |-> <<>>,
           n_filters_fused |-> <<>>, n_convolutions_image |-> <<>>,
           n_convolutions_depth |-> <<>>, n_convolutions_fused |-> <<>>,
           resolutions_backprojection |-> {}, activation_func |-> ""]

Sides == (1..MaxSide) \cup {256}

\* pinhole intrinsics [[fx, s, cx], [0, fy, cy], [0, 0, 1]]: with and without
\* skew, with different focal lengths, and with a zero focal length (singular)
Intrinsics == { Mat(<< <<4, 0, 2>>, <<0, 4, 2>>, <<0, 0, 1>> >>),
                Mat(<< <<6, 1, 3>>, <<0, 4, 2>>, <<0, 0, 1>> >>),
                Mat(<< <<0, 0, 2>>, <<0, 4, 2>>, <<0, 0, 1>> >>) }

ForwardInputs ==
    { [n |-> b,
       image |-> Tensor("image", input_channels_image, h, w),
       depth |-> Tensor("depth", input_channels_depth, h, w),
       intrinsics |-> k] :
      b \in 1..MaxBatch, h \in Sides, w \in Sides, k \in Intrinsics }

NoInputs == [n |-> 0, image |-> None, depth |-> None, intrinsics |-> <<>>]

NoSizes == [x \in SizeNames |-> 0]

-----------------------------------------------------------------------------
(* The state machine *)

Init ==
    /\ pc = "new"
    /\ args = NoArgs
    /\ self = [resolutions_backprojection |-> {}, blocks |-> NoBlocks]
    /\ inputs = NoInputs
    /\ sizes = NoSizes
    /\ assigned = {}
    /\ image_s = <<>>
    /\ depth_s = <<>>
    /\ fused_s = <<>>
    /\ layers = <<>>
    /\ calls = <<>>
    /\ coords = <<>>
    /\ n_scale = 0
    /\ result = NoResult
    /\ err = ""
    /\ DecoderIdle
    /\ enc = NoEncoder
    /\ PoolIdle

\* encoder = KBNetEncoder(...)
Construct ==
    /\ pc = "new"
    /\ \E a \in CtorArgs :
         LET r == KBNetEncoderInit(a)
         IN  /\ args' = a
             /\ self' = [resolutions_backprojection |-> a.resolutions_backprojection,
                         blocks |-> r.blocks]
             /\ err' = r.err
             /\ pc' = IF r.err = "" THEN "ready" ELSE "failed"
    /\ UNCHANGED <<inputs, sizes, assigned, image_s, depth_s, fused_s, layers,
                   calls, coords, n_scale, result>>
    /\ UNCHANGED <<dvars, enc, pvars>>

\* encoder(image, depth, intrinsics) is entered: layers = []
ForwardCall ==
    /\ pc = "ready"
    /\ \E in \in ForwardInputs : inputs' = in
    /\ pc' = "L0"
    /\ sizes' = NoSizes
    /\ assigned' = {}
    /\ image_s' = <<>>
    /\ depth_s' = <<>>
    /\ fused_s' = <<>>
    /\ layers' = <<>>
    /\ calls' = <<>>
    /\ coords' = <<>>
    /\ n_scale' = 0
    /\ result' = NoResult
    /\ err' = ""
    /\ UNCHANGED <<args, self>>
    /\ UNCHANGED <<dvars, enc, pvars>>

\* the effect of one section of forward, given what it computed
Advance(r, next) ==
    /\ sizes' = r.sizes
    /\ assigned' = r.assigned
    /\ calls' = calls \o r.calls
    /\ coords' = coords \o r.coords
    /\ n_scale' = n_scale + r.scaled
    /\ err' = r.err
    /\ IF r.err # ""
       THEN /\ pc' = "raised"
            /\ UNCHANGED <<image_s, depth_s, fused_s, layers, result>>
       ELSE /\ image_s' = Append(image_s, r.image)
            /\ depth_s' = Append(depth_s, r.depth)
            /\ fused_s' = Append(fused_s, r.fused)
            /\ layers' = Append(layers, Cat(r.skips[1], r.skips[2]))
            /\ pc' = next
            /\ result' = IF next = "done" THEN ForwardReturn(layers') ELSE result
    /\ UNCHANGED <<args, self, inputs>>
    /\ UNCHANGED <<dvars, enc, pvars>>

Level0 ==
    /\ pc = "L0"
    /\ Advance(ForwardLevel0(self, inputs, sizes, assigned), "L1")

Level1 ==
    /\ pc = "L1"
    /\ Advance(ForwardLevel(1, "calibrated_backprojection2", self, inputs, image_s[1],
                            depth_s[1], fused_s[1], sizes, assigned), "L2")

Level2 ==
    /\ pc = "L2"
    /\ Advance(ForwardLevel(2, "calibrated_backprojection3", self, inputs, image_s[2],
                            depth_s[2], fused_s[2], sizes, assigned), "L3")

Level3 ==
    /\ pc = "L3"
    /\ Advance(ForwardLevel(3, "calibrated_backprojection4", self, inputs, image_s[3],
                            depth_s[3], fused_s[3], sizes, assigned), "L4")

\* the last section calls self.calibrated_backprojection4 again; then forward returns
Level4 ==
    /\ pc = "L4"
    /\ Advance(ForwardLevel(4, "calibrated_backprojection4", self, inputs, image_s[4],
                            depth_s[4], fused_s[4], sizes, assigned), "done")

\* mutant: forward removes the levels it has processed from
\* self.resolutions_backprojection
ForwardExit_ConsumesResolutions ==
    /\ pc \in {"done", "raised"}
    /\ pc' = "ready"
    /\ inputs' = NoInputs
    /\ sizes' = NoSizes
    /\ assigned' = {}
    /\ image_s' = <<>>
    /\ depth_s' = <<>>
    /\ fused_s' = <<>>
    /\ layers' = <<>>
    /\ calls' = <<>>
    /\ coords' = <<>>
    /\ n_scale' = 0
    /\ result' = NoResult
    /\ err' = ""
    /\ self' = [self EXCEPT !.resolutions_backprojection =
                                @ \ {calls[i].level : i \in 1..Len(calls)}]
    /\ UNCHANGED args
    /\ UNCHANGED <<dvars, enc, pvars>>

\* the call is over (returned or raised): its frame is dropped and the encoder
\* can be called again
ForwardExit ==
    /\ pc \in {"done", "raised"}
    /\ pc' = "ready"
    /\ inputs' = NoInputs
    /\ sizes' = NoSizes
    /\ assigned' = {}
    /\ image_s' = <<>>
    /\ depth_s' = <<>>
    /\ fused_s' = <<>>
    /\ layers' = <<>>
    /\ calls' = <<>>
    /\ coords' = <<>>
    /\ n_scale' = 0
    /\ result' = NoResult
    /\ err' = ""
    /\ UNCHANGED <<args, self>>
    /\ UNCHANGED <<dvars, enc, pvars>>

Next == Construct \/ ForwardCall \/ ForwardExit \/ Level0 \/ Level1 \/ Level2 \/ Level3 \/ Level4

Spec == Init /\ [][Next]_vars

-----------------------------------------------------------------------------
(* The state machine of the MultiScaleDecoder *)

\* decoder = MultiScaleDecoder(...)
DecoderConstruct ==
    /\ d_pc = "new"
    /\ \E a \in DecoderArgs :
         LET r == MultiScaleDecoderInit(a)
         IN  /\ d_args' = a
             /\ d_self' = r.me
             /\ d_err' = r.err
             /\ d_pc' = IF r.err = "" THEN "ready" ELSE "failed"
    /\ UNCHANGED <<d_in, d_layers, d_outputs, d_n, d_up, d_calls, d_result>>
    /\ UNCHANGED <<kvars, enc, pvars>>

\* decoder(x, skips, shape) is entered: layers = [x], outputs = [],
\* n = len(skips) - 1
DecoderForwardCall ==
    /\ d_pc = "ready"
    /\ \E in \in DecoderInputs(d_args) :
         /\ d_in' = in
         /\ d_layers' = <<in.x>>
         /\ d_n' = Len(in.skips) - 1
    /\ d_outputs' = <<>>
    /\ d_up' = NoUpsamples
    /\ d_calls' = <<>>
    /\ d_result' = <<>>
    /\ d_err' = ""
    /\ d_pc' = "D6"
    /\ UNCHANGED <<d_args, d_self>>
    /\ UNCHANGED <<kvars, enc, pvars>>

\* the effect of one section of forward, given what it computed; the last
\* section returns outputs
DecoderAdvance(r, next) ==
    /\ d_layers' = r.layers
    /\ d_outputs' = r.outputs
    /\ d_n' = r.n
    /\ d_up' = r.up
    /\ d_calls' = d_calls \o r.calls
    /\ d_err' = r.err
    /\ d_pc' = IF r.err # "" THEN "raised" ELSE next
    /\ d_result' = IF r.err = "" /\ next = "done" THEN r.outputs ELSE d_result
    /\ UNCHANGED <<d_args, d_self, d_in>>
    /\ UNCHANGED <<kvars, enc, pvars>>

Deconv6 ==
    /\ d_pc = "D6"
    /\ DecoderAdvance(StagePlain(6, d_self, d_in, d_layers, d_outputs, d_n, d_up), "D5")

Deconv5 ==
    /\ d_pc = "D5"
    /\ DecoderAdvance(StagePlain(5, d_self, d_in, d_layers, d_outputs, d_n, d_up), "D4")

Deconv4 ==
    /\ d_pc = "D4"
    /\ DecoderAdvance(StagePlain(4, d_self, d_in, d_layers, d_outputs, d_n, d_up), "D3")

Deconv3 ==
    /\ d_pc = "D3"
    /\ DecoderAdvance(Stage3(d_self, d_in, d_layers, d_outputs, d_n, d_up), "D2")

Deconv2 ==
    /\ d_pc = "D2"
    /\ DecoderAdvance(StageFused(2, d_self, d_in, d_layers, d_outputs, d_n, d_up), "D1")

Deconv1 ==
    /\ d_pc = "D1"
    /\ DecoderAdvance(StageFused(1, d_self, d_in, d_layers, d_outputs, d_n, d_up), "D0")

Deconv0 ==
    /\ d_pc = "D0"
    /\ DecoderAdvance(Stage0(d_self, d_in, d_layers, d_outputs, d_n, d_up), "done")

\* the call is over (returned or raised): its frame is dropped and the decoder
\* can be called again
DecoderForwardExit ==
    /\ d_pc \in {"done", "raised"}
    /\ d_pc' = "ready"
    /\ d_in' = NoDecoderInputs
    /\ d_layers' = <<>>
    /\ d_outputs' = <<>>
    /\ d_n' = 0
    /\ d_up' = NoUpsamples
    /\ d_calls' = <<>>
    /\ d_result' = <<>>
    /\ d_err' = ""
    /\ UNCHANGED <<d_args, d_self>>
    /\ UNCHANGED <<kvars, enc, pvars>>

NextDecoder ==
    \/ DecoderConstruct \/ DecoderForwardCall \/ DecoderForwardExit
    \/ Deconv6 \/ Deconv5 \/ Deconv4 \/ Deconv3 \/ Deconv2 \/ Deconv1 \/ Deconv0

SpecDecoder == Init /\ [][NextDecoder]_vars

-----------------------------------------------------------------------------
(* One module object, a KBNetEncoder or a MultiScaleDecoder, and its forward
   calls *)

NextModules ==
    \/ (d_pc = "new" /\ Next)
    \/ (pc = "new" /\ NextDecoder)

SpecModules == Init /\ [][NextModules]_vars

-----------------------------------------------------------------------------
(* The state machine of the constructors *)

ResNetEncoderConstruct ==
    /\ enc = NoEncoder
    /\ \E a \in EncoderArgs : enc' = ResNetEncoderInit(a)
    /\ UNCHANGED <<kvars, dvars, pvars>>

AtrousResNetEncoderConstruct ==
    /\ enc = NoEncoder
    /\ \E a \in EncoderArgs : enc' = AtrousResNetEncoderInit(a)
    /\ UNCHANGED <<kvars, dvars, pvars>>

VGGNetEncoderConstruct ==
    /\ enc = NoEncoder
    /\ \E a \in EncoderArgs : enc' = VGGNetEncoderInit(a)
    /\ UNCHANGED <<kvars, dvars, pvars>>

AtrousVGGNetEncoderConstruct ==
    /\ enc = NoEncoder
    /\ \E a \in EncoderArgs : enc' = AtrousVGGNetEncoderInit(a)
    /\ UNCHANGED <<kvars, dvars, pvars>>

\* one constructor call of the four encoders, and the decoder's
NextCtor ==
    \/ (d_pc = "new" /\ ResNetEncoderConstruct)
    \/ (d_pc = "new" /\ AtrousResNetEncoderConstruct)
    \/ (d_pc = "new" /\ VGGNetEncoderConstruct)
    \/ (d_pc = "new" /\ AtrousVGGNetEncoderConstruct)
    \/ (enc = NoEncoder /\ DecoderConstruct)

SpecCtor == Init /\ [][NextCtor]_vars

-----------------------------------------------------------------------------
(* The state machine of SparseToDensePool *)

\* pool = SparseToDensePool(...)
PoolConstruct ==
    /\ p_pc = "new"
    /\ \E a \in PoolArgs :
         LET r == SparseToDensePoolInit(a)
         IN  /\ p_self' = r.me
             /\ p_err' = r.err
             /\ p_pc' = IF r.err = "" THEN "ready" ELSE "failed"
    /\ UNCHANGED <<p_x, p_pyramid, p_result>>
    /\ UNCHANGED <<kvars, dvars, enc>>

\* pool(x) is entered: z = x[:, 0, ...], pool_pyramid = []
PoolForwardCall ==
    /\ p_pc = "ready"
    /\ \E x \in PoolInputs : p_x' = x
    /\ p_pyramid' = <<>>
    /\ p_result' = None
    /\ p_err' = ""
    /\ p_pc' = "min"
    /\ UNCHANGED p_self
    /\ UNCHANGED <<kvars, dvars, enc>>

\* "for pool, s in zip(self.min_pools, self.min_pool_sizes)"
PoolMinLoop ==
    /\ p_pc = "min"
    /\ LET r == MinPools(p_self, p_x.z, 1, p_pyramid)
       IN  /\ p_pyramid' = r.pyramid
           /\ p_err' = r.err
           /\ p_pc' = IF r.err = "" THEN "max" ELSE "raised"
    /\ UNCHANGED <<p_self, p_x, p_result>>
    /\ UNCHANGED <<kvars, dvars, enc>>

\* "for pool, s in zip(self.max_pools, self.max_pool_sizes)"
PoolMaxLoop ==
    /\ p_pc = "max"
    /\ p_pyramid' = MaxPools(p_self, p_x.z, p_pyramid)
    /\ p_pc' = "cat"
    /\ UNCHANGED <<p_self, p_x, p_result, p_err>>
    /\ UNCHANGED <<kvars, dvars, enc>>

\* the concatenations and convolutions, and the return
PoolReturn ==
    /\ p_pc = "cat"
    /\ LET r == PoolCombine(p_self, p_x, p_pyramid)
       IN  /\ p_result' = r.out
           /\ p_err' = r.err
           /\ p_pc' = IF r.err = "" THEN "done" ELSE "raised"
    /\ UNCHANGED <<p_self, p_x, p_pyramid>>
    /\ UNCHANGED <<kvars, dvars, enc>>

\* the call is over (returned or raised): its frame is dropped
PoolForwardExit ==
    /\ p_pc \in {"done", "raised"}
    /\ p_pc' = "ready"
    /\ p_x' = NoPoolInput
    /\ p_pyramid' = <<>>
    /\ p_result' = None
    /\ p_err' = ""
    /\ UNCHANGED p_self
    /\ UNCHANGED <<kvars, dvars, enc>>

NextPool ==
    \/ PoolConstruct \/ PoolForwardCall \/ PoolMinLoop \/ PoolMaxLoop \/ PoolReturn
    \/ PoolForwardExit

SpecPool == Init /\ [][NextPool]_vars

-----------------------------------------------------------------------------
(* Vocabulary of the properties *)

Calibrated(n) == n \in self.resolutions_backprojection

CalibratedAttrs == {CBName[i] : i \in 1..5}
PlainImageAttrs == {ConvImageName[i] : i \in 1..5}
PlainDepthAttrs == {ConvDepthName[i] : i \in 1..5}

\* forward is running or has just ended
InForward == pc \in {"L0", "L1", "L2", "L3", "L4", "done", "raised"}

\* level n has been processed without raising
Processed(n) == n + 1 <= Len(layers)

\* the output streams of level n, once processed
ImageOf(n) == image_s[n + 1]
DepthOf(n) == depth_s[n + 1]
FusedOf(n) == fused_s[n + 1]

\* the indices of the logged invocations made at level n of the given attributes
CallsAt(n, attrs) == {i \in 1..Len(calls) : calls[i].level = n /\ calls[i].attr \in attrs}

Shape(t) == <<t.ch, t.h, t.w>>

-----------------------------------------------------------------------------
(* C1: every calibrated level n >= 1 builds its camera coordinates from K scaled
   element-wise by [[sx,1,sx],[1,sy,sy],[1,1,1]] with sx = width_n / width_0 and
   sy = height_n / height_0, (height_n, width_n) being the size of level n's input
   features; a calibrated level 0 uses K itself. *)
C1_IntrinsicsScaledToLevelSize ==
    \A i \in 1..Len(coords) :
        LET e == coords[i]
            n == e.level
        IN  IF n = 0
            THEN e.k = inputs.intrinsics
            ELSE e.k = Hadamard(inputs.intrinsics,
                                ScaleTemplate(Frac(ImageOf(n - 1).w, inputs.image.w),
                                              Frac(ImageOf(n - 1).h, inputs.image.h)))

-----------------------------------------------------------------------------
(* C2 as stated: at every level n >= 1, plain or calibrated, the image input is
   level n-1's fused output if level n-1 was calibrated and level n-1's image
   output otherwise. *)
C2_ImageInputIsFusedAfterCalibrated ==
    \A n \in 1..4 :
        \A i \in CallsAt(n, CalibratedAttrs \cup PlainImageAttrs) :
            calls[i].image = IF Calibrated(n - 1) THEN FusedOf(n - 1) ELSE ImageOf(n - 1)

(* C2 amended: a plain level n >= 1 feeds its image block with level n-1's fused
   output if level n-1 was calibrated and with its image output otherwise; a
   calibrated level n >= 1 always passes level n-1's image output as the image
   input of its backprojection block, and level n-1's fused stream (None after a
   plain level) as the separate fused input. *)
C2_ImageInputRule ==
    \A n \in 1..4 :
        /\ \A i \in CallsAt(n, PlainImageAttrs) :
               calls[i].image = IF Calibrated(n - 1) THEN FusedOf(n - 1)
                                ELSE ImageOf(n - 1)
        /\ \A i \in CallsAt(n, CalibratedAttrs) :
               /\ calls[i].image = ImageOf(n - 1)
               /\ calls[i].image.id = ImageOut[n]
               /\ calls[i].fused = FusedOf(n - 1)
               /\ (calls[i].fused # None) <=> Calibrated(n - 1)

\* a finished pass with a calibrated level after a calibrated one, a plain level
\* after a calibrated one and a plain level after a plain one
C2_Witness ==
    /\ pc = "done"
    /\ self.resolutions_backprojection = {0, 1, 2}
    /\ CallsAt(2, CalibratedAttrs) # {}
    /\ CallsAt(3, PlainImageAttrs) # {}
    /\ CallsAt(4, PlainImageAttrs) # {}

-----------------------------------------------------------------------------
(* C3: whenever forward completes it returns (bottleneck, skips) with bottleneck
   the combined entry of level 4, the last one appended, skips exactly the
   combined entries of levels 0, 1, 2, 3 in that order, and the bottleneck not
   among the skips. *)
C3_ReturnsBottleneckAndFourSkips ==
    pc = "done" =>
        /\ result.returned
        /\ Len(layers) = 5
        /\ result.bottleneck = layers[5]
        /\ result.bottleneck.parts[2] = DepthOut[5]
        /\ Len(result.skips) = 4
        /\ \A n \in 0..3 : /\ result.skips[n + 1] = layers[n + 1]
                           /\ result.skips[n + 1].parts[2] = DepthOut[n + 1]
                           /\ result.skips[n + 1].h >= result.bottleneck.h
        /\ \A j \in 1..3 : result.skips[j].h >= result.skips[j + 1].h
        /\ \A j \in 1..Len(result.skips) : result.skips[j] # result.bottleneck

C3_Witness ==
    /\ pc = "done"
    /\ result.returned
    /\ self.resolutions_backprojection # {}
    /\ inputs.image.h > 1

-----------------------------------------------------------------------------
(* C4: with resolutions_backprojection = [0, 1, 2] (the other arguments at their
   defaults), a 256 x 256 image and depth and invertible intrinsics, forward does
   not raise, every level halves the size exactly once, the skips are 4 entries
   of 128, 64, 32 and 16 pixels per side and the bottleneck is 8 x 8. *)
C4_Case ==
    /\ InForward
    /\ args.resolutions_backprojection = {0, 1, 2}
    /\ args.n_filters_image = <<48, 96, 192, 384, 384>>
    /\ args.n_filters_depth = <<16, 32, 64, 128, 128>>
    /\ args.n_filters_fused = <<48, 96, 192, 384, 384>>
    /\ inputs.image.h = 256
    /\ inputs.image.w = 256
    /\ Invertible(inputs.intrinsics)

C4_ExamplePyramid ==
    C4_Case =>
        /\ pc # "raised"
        /\ \A n \in 0..4 :
               Processed(n) =>
                   /\ layers[n + 1].h = <<128, 64, 32, 16, 8>>[n + 1]
                   /\ layers[n + 1].w = <<128, 64, 32, 16, 8>>[n + 1]
                   /\ ImageOf(n).h = layers[n + 1].h
                   /\ DepthOf(n).h = layers[n + 1].h
        /\ pc = "done" =>
               /\ Len(result.skips) = 4
               /\ \A j \in 1..4 : result.skips[j].h = <<128, 64, 32, 16>>[j]
               /\ result.bottleneck.h = 8
               /\ result.bottleneck.w = 8
               /\ result.bottleneck.h * 32 = inputs.image.h

C4_Witness == C4_Case /\ pc = "done" /\ result.returned

-----------------------------------------------------------------------------
(* C5: the combined entry of level n is cat([fused_n, depth_n]) with
   n_filters_fused[n] + n_filters_depth[n] channels when level n is calibrated and
   cat([image_n, depth_n]) with n_filters_image[n] + n_filters_depth[n] channels
   when it is plain. *)
C5_CombinedEntryChannels ==
    \A n \in 0..4 :
        Processed(n) =>
            IF Calibrated(n)
            THEN /\ layers[n + 1].parts = <<FusedOut[n + 1], DepthOut[n + 1]>>
                 /\ layers[n + 1].ch = args.n_filters_fused[n + 1]
                                       + args.n_filters_depth[n + 1]
            ELSE /\ layers[n + 1].parts = <<ImageOut[n + 1], DepthOut[n + 1]>>
                 /\ layers[n + 1].ch = args.n_filters_image[n + 1]
                                       + args.n_filters_depth[n + 1]

-----------------------------------------------------------------------------
(* C6: once level n is processed its fused stream is None exactly when level n is
   plain; a plain level n >= 1 feeds its image block with level n-1's fused stream
   when that is present and with level n-1's image stream when it is absent; no
   plain block is ever given None. *)
C6_FusedNoneIffPlain ==
    /\ \A n \in 0..4 : Processed(n) => ((FusedOf(n) = None) <=> ~Calibrated(n))
    /\ \A n \in 1..4 :
           \A i \in CallsAt(n, PlainImageAttrs) :
               calls[i].image = IF FusedOf(n - 1) # None THEN FusedOf(n - 1)
                                ELSE ImageOf(n - 1)
    /\ \A i \in 1..Len(calls) :
           /\ calls[i].attr \in PlainImageAttrs \cup {"conv0_image"}
                  => calls[i].image # None
           /\ calls[i].attr \in PlainDepthAttrs \cup {"conv0_depth"}
                  => calls[i].depth # None

\* a plain level fed by a fused stream and a later plain level fed by an image stream
C6_Witness ==
    /\ Processed(4)
    /\ \E n \in 1..3 : /\ ~Calibrated(n) /\ FusedOf(n - 1) # None
                       /\ ~Calibrated(n + 1) /\ FusedOf(n) = None

-----------------------------------------------------------------------------
(* C7: with resolutions_backprojection = [] every level runs only its plain
   stride 2 image block and its plain stride 2 depth block; the 5 combined entries
   have the channel counts n_filters_image[n] + n_filters_depth[n] and the sizes
   of a chain of 5 plain stride 2 block pairs; no camera coordinates are computed
   and the intrinsics are neither scaled nor inverted. *)

\* the combined entries of a chain of plain stride 2 block pairs, levels n .. 5
RECURSIVE PlainChain(_, _, _, _, _)
PlainChain(n, x, d, fi, fd) ==
    IF n > 5 THEN <<>>
    ELSE LET xi == ApplyConv("b" :> VGGNetBlock(x.ch, fi[n], 1, 2), "b", x, ImageOut[n]).out
             di == ApplyConv("b" :> VGGNetBlock(d.ch, fd[n], 1, 2), "b", d, DepthOut[n]).out
         IN  <<Cat(xi, di)>> \o PlainChain(n + 1, xi, di, fi, fd)

C7_Case == InForward /\ args.resolutions_backprojection = {}

C7_PlainEncoderIsPlainChain ==
    C7_Case =>
        /\ pc # "raised"
        /\ coords = <<>>
        /\ n_scale = 0
        /\ \A i \in 1..Len(calls) :
               /\ calls[i].attr \in PlainImageAttrs \cup PlainDepthAttrs
               /\ self.blocks[calls[i].attr].kind = "VGGNetBlock"
               /\ self.blocks[calls[i].attr].stride = 2
        /\ \A n \in 0..4 :
               Processed(n) =>
                   /\ CallsAt(n, BlockNames) = {2 * n + 1, 2 * n + 2}
                   /\ calls[2 * n + 1].attr = ConvImageName[n + 1]
                   /\ calls[2 * n + 2].attr = ConvDepthName[n + 1]
                   /\ layers[n + 1].ch = args.n_filters_image[n + 1]
                                         + args.n_filters_depth[n + 1]
                   /\ layers[n + 1] = PlainChain(1, inputs.image, inputs.depth,
                                                 args.n_filters_image,
                                                 args.n_filters_depth)[n + 1]

\* a finished plain pass on intrinsics that could not have been inverted
C7_Witness ==
    /\ C7_Case
    /\ pc = "done"
    /\ Len(layers) = 5
    /\ ~Invertible(inputs.intrinsics)
    /\ inputs.image.h > 1

-----------------------------------------------------------------------------
(* C8: scale_intrinsics called with height1 = height0 and width1 = width0 returns
   K unchanged. *)
C8_ScaleIdentityAtSameSize ==
    \A i \in 1..Len(coords) :
        LET e == coords[i]
        IN  (e.level >= 1 /\ e.h = sizes["n_height0"] /\ e.w = sizes["n_width0"])
                => e.k = inputs.intrinsics

\* scale_intrinsics was called with equal sizes on intrinsics with a skew entry
C8_Witness ==
    \E i \in 1..Len(coords) :
        /\ coords[i].level >= 1
        /\ coords[i].h = sizes["n_height0"]
        /\ coords[i].w = sizes["n_width0"]
        /\ inputs.intrinsics[1][2] # FInt(0)

-----------------------------------------------------------------------------
(* C9 as stated: construction fails if and only if one of the six per-level lists
   does not have exactly 5 entries, and it fails before any block is created. *)
SomeListNotFive ==
    \E l \in {args.n_filters_image, args.n_filters_depth, args.n_filters_fused,
              args.n_convolutions_image, args.n_convolutions_depth,
              args.n_convolutions_fused} : Len(l) # 5

C9_FailsIffListLength ==
    pc # "new" =>
        /\ (pc = "failed") <=> SomeListNotFive
        /\ pc = "failed" => self.blocks = NoBlocks

(* C9 amended: construction fails if and only if one of the six per-level lists
   does not have exactly 5 entries or the activation function name is not
   recognised; in both cases it fails before any block is created, and a list of
   the wrong length fails with an AssertionError. *)
C9_FailsIffListLengthOrActivation ==
    pc # "new" =>
        /\ (pc = "failed") <=>
               (SomeListNotFive \/ args.activation_func \notin RecognizedActivations)
        /\ SomeListNotFive => err = "AssertionError"
        /\ pc = "failed" => self.blocks = NoBlocks
        /\ pc # "failed" =>
               \A n \in 0..4 :
                   IF n \in args.resolutions_backprojection
                   THEN self.blocks[CBName[n + 1]].kind = "CalibratedBackprojectionBlock"
                   ELSE /\ self.blocks[ConvImageName[n + 1]].kind = "VGGNetBlock"
                        /\ self.blocks[ConvDepthName[n + 1]].kind = "VGGNetBlock"

\* a construction that failed only because n_filters_fused has 6 entries
C9_Witness ==
    /\ pc = "failed"
    /\ Len(args.n_filters_fused) = 6
    /\ Len(args.n_filters_image) = 5
    /\ Len(args.n_filters_depth) = 5
    /\ Len(args.n_convolutions_image) = 5
    /\ Len(args.n_convolutions_depth) = 5
    /\ Len(args.n_convolutions_fused) = 5
    /\ args.activation_func \in RecognizedActivations

-----------------------------------------------------------------------------
(* C10: forward inverts an intrinsics matrix exactly once per calibrated level and
   never at a plain level; when an inversion fails, forward raises and returns
   neither a bottleneck nor a partial list of skips. *)
C10_InverseOncePerCalibratedLevel ==
    /\ \A i \in 1..Len(coords) : Calibrated(coords[i].level)
    /\ \A i, j \in 1..Len(coords) : i < j => coords[i].level < coords[j].level
    /\ \A n \in 0..4 :
           (Processed(n) /\ Calibrated(n)) => \E i \in 1..Len(coords) : coords[i].level = n
    /\ (\E i \in 1..Len(coords) : Det3(coords[i].k)[1] = 0) =>
           /\ pc = "raised"
           /\ err = "LinAlgError"
           /\ ~result.returned
           /\ result.skips = <<>>
           /\ result.bottleneck = None

\* forward raised out of the inversion of singular intrinsics
C10_Witness ==
    /\ pc = "raised"
    /\ err = "LinAlgError"
    /\ Len(coords) = 1
    /\ Det3(coords[1].k)[1] = 0
    /\ ~result.returned

-----------------------------------------------------------------------------
(* Vocabulary of the decoder's properties *)

DecoderDepth == Len(d_args.n_filters)

\* forward has returned
DecoderReturned == d_pc = "done"

\* the indices of the logged invocations of the decode blocks, coarsest first
DeconvCalls == SelectSeq(d_calls, LAMBDA c : c.attr \in {DeconvName[i] : i \in 1..7})

\* the logged invocation of an attribute, if it ran
RanAttr(attr) == \E i \in 1..Len(d_calls) : d_calls[i].attr = attr

\* the name of the prediction of level j in the returned list: the head's name, or
\* upsample_output1 where the upsample mode replaces output0
PredictionName(j) ==
    IF j = 0 /\ HasUpsample(d_self.output_func) THEN UpsampleName[1] ELSE OutputName[j + 1]

-----------------------------------------------------------------------------
(* C11: for every decoder that was built (network_depth 2 .. 7, any accepted
   n_resolution), forward returns exactly n_resolution predictions, ordered from
   the coarsest requested level n_resolution - 1 down to level 0, the
   full-resolution prediction last. *)
C11_ReturnsNResolutionPredictions ==
    DecoderReturned =>
        /\ Len(d_result) = d_self.n_resolution
        /\ \A i \in 1..Len(d_result) :
               d_result[i].id = PredictionName(d_self.n_resolution - i)

-----------------------------------------------------------------------------
(* C12: after a successful construction the stored n_resolution satisfies
   1 <= n_resolution < network_depth = len(n_filters), and it is at least 2 when
   the name of the output function contains "upsample". *)
C12_StoredResolutionInRange ==
    d_pc \notin {"new", "failed"} =>
        /\ 1 <= d_self.n_resolution
        /\ d_self.n_resolution < DecoderDepth
        /\ HasUpsample(d_self.output_func) => d_self.n_resolution >= 2

-----------------------------------------------------------------------------
(* C13: every prediction emitted at a level j coarser than the finest (by
   output3, output2 or output1) is bilinearly upsampled, to the size of the next
   finer skip entry when there is one and by the factor 2 otherwise, and is part of
   the skip argument of the next finer decode block deconv{j-1} when that block is
   invoked: no emitted coarse prediction is dropped from the next decode step. *)

\* the index of the first logged invocation of an attribute (0: none)
FirstCall(attr) ==
    IF RanAttr(attr)
    THEN CHOOSE i \in 1..Len(d_calls) :
             /\ d_calls[i].attr = attr
             /\ \A k \in 1..(i - 1) : d_calls[k].attr # attr
    ELSE 0

\* tensor t is the value named id or a concatenation that has it as a part
HasPart(t, id) == t.id = id \/ (t.id = "cat" /\ \E k \in 1..Len(t.parts) : t.parts[k] = id)

\* the upsampled prediction of level j has the size the claim states: n is the
\* index of the skip entry of level j
UpsampledAsStated(j, prediction, n) ==
    LET u == d_up[UpsampleName[j]]
    IN  /\ u # Unbound
        /\ u.ch = prediction.ch
        /\ IF n > 0
           THEN u.h = d_in.skips[n].h /\ u.w = d_in.skips[n].w
           ELSE u.h = 2 * prediction.h /\ u.w = 2 * prediction.w

C13_CoarsePredictionFeedsNextBlock ==
    \A j \in 1..3 :
        LET head == FirstCall(OutputName[j + 1])
            finer == FirstCall(DeconvName[j])
        IN  (head # 0 /\ finer # 0) =>
                /\ head < finer
                /\ UpsampledAsStated(j, ApplyHead(d_self.attrs[OutputName[j + 1]],
                                                  OutputName[j + 1], d_calls[head].x).out,
                                     d_calls[head].n)
                /\ HasPart(d_calls[finer].skip, UpsampleName[j])

-----------------------------------------------------------------------------
(* C14: with len(skips) = network_depth - 1 or network_depth, the decode blocks
   run in the order deconv6 .. deconv0 (those that exist), the k-th block run
   (k = 0 the coarsest) reads skips[len(skips) - 1 - k] and receives it in its skip
   argument; deconv0 receives a skip entry only when len(skips) = network_depth. *)

\* the names of the skip entries
SkipIds == {SkipId[i] : i \in 1..Len(SkipId)}

\* a tensor that is a skip entry or a concatenation with one
CarriesSkipEntry(t) == \E id \in SkipIds : HasPart(t, id)

\* the precondition of C14, while forward runs or has just ended
C14_Case ==
    /\ d_pc \in {"D6", "D5", "D4", "D3", "D2", "D1", "D0", "done", "raised"}
    /\ Len(d_in.skips) \in {DecoderDepth - 1, DecoderDepth}

\* order of the blocks and the entry each one receives
C14_OrderAndEntries ==
    C14_Case =>
        \A k \in 0..(Len(DeconvCalls) - 1) :
            LET c == DeconvCalls[k + 1]
            IN  /\ c.attr = DeconvName[DecoderDepth - k]
                /\ c.n = Len(d_in.skips) - 1 - k
                /\ IF c.n >= 0
                   THEN /\ c.entry = d_in.skips[c.n + 1]
                        /\ c.entry # None => HasPart(c.skip, c.entry.id)
                   ELSE /\ c.attr = "deconv0"
                        /\ ~CarriesSkipEntry(c.skip)

\* every entry is consumed by exactly one block of a call that returned
C14_EachEntryOnce ==
    (C14_Case /\ DecoderReturned) =>
        \A i \in 0..(Len(d_in.skips) - 1) :
            Cardinality({k \in 1..Len(DeconvCalls) : DeconvCalls[k].n = i}) = 1

C14_SkipsConsumedInReverse == C14_OrderAndEntries /\ C14_EachEntryOnce

\* as amended: in the upsample mode deconv0 does not run, and skips[0] of a list
\* of network_depth entries is consumed by no block
C14_EachEntryOnceUnlessBypassed ==
    (C14_Case /\ DecoderReturned) =>
        \A i \in 0..(Len(d_in.skips) - 1) :
            Cardinality({k \in 1..Len(DeconvCalls) : DeconvCalls[k].n = i}) =
                IF i = 0 /\ BypassFinest(d_self.output_func)
                         /\ Len(d_in.skips) = DecoderDepth
                THEN 0 ELSE 1

C14_SkipsConsumedInReverseUnlessBypassed ==
    C14_OrderAndEntries /\ C14_EachEntryOnceUnlessBypassed

\* a call with network_depth skips returned: deconv0 received skips[0] with the
\* upsampled output1, after four coarser blocks consumed the other entries
C14_Witness ==
    /\ DecoderReturned
    /\ DecoderDepth = 5
    /\ Len(d_in.skips) = 5
    /\ Len(DeconvCalls) = 5
    /\ DeconvCalls[5].attr = "deconv0"
    /\ DeconvCalls[5].skip.parts = <<"skip0", "upsample_output1">>
    /\ DeconvCalls[1].skip.id = "skip4"

-----------------------------------------------------------------------------
(* C15: when the name of the output function contains "upsample", forward runs
   neither deconv0 nor output0, and the last element of the returned list is the
   bilinear upsampling of output1's result, which is the element before it. *)
C15_UpsampleModeBypassesFinest ==
    HasUpsample(d_self.output_func) =>
        /\ ~RanAttr("deconv0")
        /\ ~RanAttr("output0")
        /\ DecoderReturned =>
               /\ Len(d_result) >= 2
               /\ d_result[Len(d_result)] = d_up["upsample_output1"]
               /\ d_result[Len(d_result)].id = "upsample_output1"
               /\ d_result[Len(d_result) - 1].id = "output1"
               /\ UpsampledAsStated(1, d_result[Len(d_result) - 1],
                                    d_calls[FirstCall("output1")].n)

\* an upsample-mode call returned output2, output1 and the upsampled output1,
\* the latter at the size of the finest skip entry
C15_Witness ==
    /\ DecoderReturned
    /\ HasUpsample(d_self.output_func)
    /\ Len(d_result) = 3
    /\ Len(d_in.skips) = DecoderDepth
    /\ d_result[3].h = d_in.skips[1].h
    /\ d_result[3].h # 2 * d_result[2].h

-----------------------------------------------------------------------------
(* C16: an invalid configuration is rejected by the constructor and no instance
   is produced: ResNetEncoder with n_layer outside {18, 34, 50},
   AtrousResNetEncoder with n_layer outside {18, 34}, VGGNetEncoder and
   AtrousVGGNetEncoder with n_layer outside {8, 11, 13} raise ValueError;
   MultiScaleDecoder with n_resolution < 1, n_resolution >= len(n_filters) or
   len(n_filters) >= 8 fails its assertions. *)

\* the n_layer values each class supports
SupportedLayers(cls) ==
    IF cls = "ResNetEncoder" THEN {18, 34, 50}
    ELSE IF cls = "AtrousResNetEncoder" THEN {18, 34}
    ELSE {8, 11, 13}

C16_InvalidConfigurationRejected ==
    /\ (enc # NoEncoder /\ enc.n_layer \notin SupportedLayers(enc.cls)) =>
           /\ enc.err = "ValueError"
           /\ enc.stack = <<>>
    /\ (d_pc # "new" /\ (\/ d_args.n_resolution < 1
                         \/ d_args.n_resolution >= Len(d_args.n_filters)
                         \/ Len(d_args.n_filters) >= 8)) =>
           /\ d_pc = "failed"
           /\ d_err = "AssertionError"
           /\ d_self = NoDecoder

\* AtrousResNetEncoder(n_layer=50, five filters) was rejected, although 50 is a
\* ResNetEncoder architecture
C16_Witness ==
    /\ enc.cls = "AtrousResNetEncoder"
    /\ enc.n_layer = 50
    /\ Len(enc.n_filters) = 5
    /\ enc.activation_func = "leaky_relu"
    /\ enc.err = "ValueError"

-----------------------------------------------------------------------------
(* C17: no forward call of KBNetEncoder or MultiScaleDecoder changes the
   configuration of the object (resolutions_backprojection, n_resolution,
   output_func, the blocks), and nothing computed from the inputs of a call is
   kept after it: between calls the object is as it was after construction, so
   every call takes the per-level branches that the configuration determines, the
   same as the first call, and its camera coordinates are computed from the
   intrinsics passed to that call. *)

\* the steps of forward leave the attributes as the constructor set them
C17_ConfigurationUnchanged ==
    /\ pc # "new" => self' = self /\ args' = args
    /\ d_pc # "new" => d_self' = d_self /\ d_args' = d_args

\* between two calls no local of forward has a value
C17_NothingKept ==
    /\ pc = "ready" =>
           /\ inputs = NoInputs /\ sizes = NoSizes /\ assigned = {}
           /\ image_s = <<>> /\ depth_s = <<>> /\ fused_s = <<>>
           /\ layers = <<>> /\ calls = <<>> /\ coords = <<>> /\ n_scale = 0
           /\ self = [resolutions_backprojection |-> args.resolutions_backprojection,
                      blocks |-> KBNetEncoderInit(args).blocks]
    /\ d_pc = "ready" =>
           /\ d_in = NoDecoderInputs /\ d_layers = <<>> /\ d_outputs = <<>>
           /\ d_up = NoUpsamples /\ d_calls = <<>> /\ d_result = <<>>
           /\ d_self = MultiScaleDecoderInit(d_args).me

\* the blocks and heads a decoder built from a invokes in a call, in order
DecoderPlan(a) ==
    LET d == Len(a.n_filters)
        r == StoredResolution(a.n_resolution, a.output_func)
        step(j) == IF j >= d THEN <<>>
                   ELSE IF j = 0
                   THEN IF HasUpsample(a.output_func) THEN <<>>
                        ELSE <<DeconvName[1], OutputName[1]>>
                   ELSE IF j <= 3 /\ r > j THEN <<DeconvName[j + 1], OutputName[j + 1]>>
                   ELSE <<DeconvName[j + 1]>>
    IN  step(6) \o step(5) \o step(4) \o step(3) \o step(2) \o step(1) \o step(0)

\* the branches of a call are those of the configuration given to the constructor
C17_BranchesFromConfiguration ==
    /\ InForward =>
           \A i \in 1..Len(calls) :
               calls[i].attr \in CalibratedAttrs \cup {"conv0_image", "conv0_depth"}
                   <=> calls[i].level \in args.resolutions_backprojection
    /\ d_pc \notin {"new", "failed", "ready"} =>
           /\ Len(d_calls) <= Len(DecoderPlan(d_args))
           /\ \A i \in 1..Len(d_calls) : d_calls[i].attr = DecoderPlan(d_args)[i]

\* the matrix of every camera_coordinates call is the intrinsics of this call, at
\* level 0 as passed and below scaled by scale_intrinsics from this call's sizes
C17_CoordinatesFromThisCall ==
    InForward =>
        \A i \in 1..Len(coords) :
            coords[i].k = IF coords[i].level = 0 THEN inputs.intrinsics
                          ELSE scale_intrinsics(sizes["n_batch"], sizes["n_height0"],
                                                sizes["n_width0"], coords[i].h,
                                                coords[i].w, inputs.intrinsics, sizes)

C17_ForwardIsPure ==
    /\ [][C17_ConfigurationUnchanged]_vars
    /\ [](C17_NothingKept /\ C17_BranchesFromConfiguration /\ C17_CoordinatesFromThisCall)

\* an encoder call that computed camera coordinates at two levels has returned
\* and left the object ready for the next call
C17_Witness ==
    /\ pc = "done"
    /\ self.resolutions_backprojection = {0, 1}
    /\ Len(coords) = 2
    /\ coords[2].k # inputs.intrinsics
    /\ ENABLED ForwardExit

-----------------------------------------------------------------------------
(* Vocabulary of the pool's properties *)

\* the pixels of the s x s window centred on pixel p, inside an h x w map
Centred(p, s, h, w) ==
    { q \in Pixels(h, w) : /\ 2 * Abs(q[1] - p[1]) <= s - 1
                           /\ 2 * Abs(q[2] - p[2]) <= s - 1 }

\* the least element of a non-empty set of integers
SetMin(S) == CHOOSE m \in S : \A x \in S : m <= x

\* the minimum of the nonzero values of z in the window, 0 when there is none
MinNonzero(z, p, s) ==
    LET nonzero == { z.v[q] : q \in Centred(p, s, z.h, z.w) } \ {0}
    IN  IF nonzero = {} THEN 0 ELSE SetMin(nonzero)

\* the entries of pool_pyramid made by the first and by the second loop
MinEntries == { i \in 1..Len(p_pyramid) : p_pyramid[i].kind = "min" }
MaxEntries == { i \in 1..Len(p_pyramid) : p_pyramid[i].kind = "max" }

-----------------------------------------------------------------------------
(* C18: for every min-pool size s and every pixel, the min-pooled map holds the
   minimum of the nonzero depth values in the s x s window centred on the pixel,
   and 0 when the window has no nonzero value, for every non-negative depth map. *)
C18_MinPoolIsMinOfNonzero ==
    \A i \in MinEntries :
        \A p \in Pixels(p_x.z.h, p_x.z.w) :
            p_pyramid[i].map.v[p] = MinNonzero(p_x.z, p, p_pyramid[i].s)


\* the nonzero pixels of a map
NonzeroPixels(z) == { p \in Pixels(z.h, z.w) : z.v[p] # 0 }

\* the s x s block of pixels around pixel c that a pool of size s can reach
Footprint(c, s) ==
    { q \in (c[1] - (s - 1) \div 2 .. c[1] + s \div 2)
            \X (c[2] - (s - 1) \div 2 .. c[2] + s \div 2) : TRUE }

-----------------------------------------------------------------------------
(* C19: for a depth map with a single nonzero pixel, every min-pooled and every
   max-pooled map of size s is nonzero only inside the s x s footprint around that
   pixel, and no pooled map contains the value 999 that masks the zeros. *)
C19_SinglePixelFootprintNoSentinel ==
    \A c \in Pixels(p_x.z.h, p_x.z.w) :
        NonzeroPixels(p_x.z) = {c} =>
            \A i \in 1..Len(p_pyramid) :
                LET e == p_pyramid[i]
                IN  \A p \in Pixels(e.map.h, e.map.w) :
                        /\ e.map.v[p] # 0 => p \in Footprint(c, e.s)
                        /\ e.map.v[p] # 999


-----------------------------------------------------------------------------
(* C20: every calibrated level n (0..4) invokes the fusion block the constructor
   built for level n, calibrated_backprojection{n+1}, and no fusion block is
   invoked at two different levels of one forward pass. *)
C20_EachLevelOwnsItsFusionBlock ==
    /\ \A i \in 1..Len(calls) :
           calls[i].attr \in CalibratedAttrs => calls[i].attr = CBName[calls[i].level + 1]
    /\ \A i, j \in 1..Len(calls) :
           calls[i].attr \in CalibratedAttrs /\ calls[i].attr = calls[j].attr
               => calls[i].level = calls[j].level

-----------------------------------------------------------------------------
(* C21: a calibrated level n passes to its fusion block (a) a coordinate grid
   computed in this call at the spatial size of the image and depth features it
   passes, (b) the image and depth streams produced by level n-1 (the initial
   feature extractors at level 0), and (c) as fused input the fused output of
   level n-1 exactly when level n-1 is calibrated, and none otherwise. *)
C21_FusionBlockInputs ==
    \A i \in 1..Len(calls) :
        LET c == calls[i]
            n == c.level
        IN  c.attr \in CalibratedAttrs =>
                /\ c.coordinates.h = c.image.h /\ c.coordinates.w = c.image.w
                /\ c.coordinates.h = c.depth.h /\ c.coordinates.w = c.depth.w
                /\ \E j \in 1..Len(coords) :
                       /\ coords[j].level = n
                       /\ coords[j].h = c.coordinates.h
                       /\ coords[j].w = c.coordinates.w
                       /\ coords[j].k = c.coordinates.k
                /\ IF n = 0
                   THEN c.image.id = "conv0_image" /\ c.depth.id = "conv0_depth"
                   ELSE c.image = ImageOf(n - 1) /\ c.depth = DepthOf(n - 1)
                /\ c.fused = IF n >= 1 /\ Calibrated(n - 1) THEN FusedOf(n - 1) ELSE None

\* a pass in which a calibrated level received a fused input and a later
\* calibrated level, after a plain one, received none
C21_Witness ==
    \E i, j \in 1..Len(calls) :
        /\ calls[i].attr \in CalibratedAttrs /\ calls[i].fused # None
        /\ calls[j].attr \in CalibratedAttrs /\ calls[j].level >= 2
        /\ calls[j].fused = None
        /\ \E m \in 0..(calls[j].level - 2) : Calibrated(m)

-----------------------------------------------------------------------------
(* C22: for every subset given as resolutions_backprojection, forward on valid
   inputs with invertible intrinsics completes: every block it invokes was created
   by the constructor and every size variable it reads was assigned earlier in the
   same call. *)
C22_ForwardCompletesForEverySubset ==
    (InForward /\ Invertible(inputs.intrinsics)) =>
        /\ err \notin {"AttributeError", "UnboundLocalError"}
        /\ pc # "raised"

-----------------------------------------------------------------------------
(* C23: the input channel count that the constructor declares for each block (plain
   image block, plain depth block, and the image, depth and fused inputs of a fusion
   block) equals the channel count of the stream that forward feeds to that block;
   in particular a plain level after a calibrated level is declared with the channel
   count of the fused stream it receives. *)
C23_DeclaredChannelsMatchStreams ==
    \A i \in 1..Len(calls) :
        LET c == calls[i]
            b == self.blocks[c.attr]
        IN  IF c.attr \in CalibratedAttrs
            THEN /\ c.image.ch = b.in_image
                 /\ c.depth.ch = b.in_depth
                 /\ c.image.ch + c.fused.ch = b.in_fused
            ELSE (IF c.image # None THEN c.image.ch ELSE c.depth.ch) = b.in_image

-----------------------------------------------------------------------------
(* C24: for every skips list whose entries have the channel counts given by n_skips
   (n_skips[0] for the coarsest skip, 0 for an absent skip), the skip tensor that
   forward passes to each decode block (the skip entry plus the concatenated
   upsampled prediction, if any) has exactly the skip_channels that block was
   constructed with: n_skips[k], plus output_channels exactly when a prediction
   head exists at the next coarser level. *)

\* the entry of skips read by the k-th block run has n_skips[k] channels, and is
\* None or missing only where n_skips[k] is 0
SkipsAsDeclared ==
    /\ Len(d_in.skips) <= Len(d_args.n_skips)
    /\ \A k \in (Len(d_in.skips) + 1)..Len(d_args.n_skips) : d_args.n_skips[k] = 0
    /\ \A i \in 1..Len(d_in.skips) :
           LET declared == d_args.n_skips[Len(d_in.skips) - i + 1]
           IN  IF d_in.skips[i] = None THEN declared = 0
               ELSE d_in.skips[i].ch = declared

\* deconv{j} was constructed with n_skips[k], plus output_channels exactly when
\* the head output{j+1} exists
ConstructedSkipChannels(j) ==
    d_args.n_skips[DecoderDepth - j]
    + (IF j <= 2 /\ d_self.attrs[OutputName[j + 2]].kind = "Conv2d"
       THEN d_args.output_channels ELSE 0)

C24_SkipChannelsAsConstructed ==
    (d_pc \notin {"new", "failed"} /\ SkipsAsDeclared) =>
        /\ \A j \in 0..6 :
               d_self.attrs[DeconvName[j + 1]].kind = "DecoderBlock" =>
                   d_self.attrs[DeconvName[j + 1]].skip = ConstructedSkipChannels(j)
        /\ \A i \in 1..Len(DeconvCalls) :
               DeconvCalls[i].skip.ch = d_self.attrs[DeconvCalls[i].attr].skip

-----------------------------------------------------------------------------
(* C25: every prediction head that the constructor creates (output3, output2,
   output1, output0) applies the configured output function output_func to its
   prediction. *)
C25_HeadsApplyOutputFunc ==
    \A j \in 1..4 :
        d_self.attrs[OutputName[j]].kind = "Conv2d" =>
            d_self.attrs[OutputName[j]].act = d_args.output_func

-----------------------------------------------------------------------------
(* C26: for every configuration accepted by the constructor (including n_resolution
   forced to 2 by an "upsample" output function), whenever forward reads
   upsample_output3, upsample_output2 or upsample_output1, or calls output3, output2
   or output1, that variable was assigned earlier in the same call and that head is
   not None. *)

\* forward calls output{j} when deconv{j} has run and self.n_resolution > j
HeadIsCalled(j) ==
    /\ d_self.n_resolution > j
    /\ d_self.attrs[DeconvName[j + 1]].kind = "DecoderBlock"

C26_HeadsAndUpsamplesDefined ==
    d_pc \notin {"new", "failed"} =>
        /\ \A j \in 1..3 : HeadIsCalled(j) => d_self.attrs[OutputName[j + 1]].kind = "Conv2d"
        /\ d_err # "UnboundLocalError"
        /\ d_err = "TypeError" => (d_self.n_resolution <= 1 /\ d_in.shape = NoShape)
        /\ \A i \in 1..Len(d_calls) :
               /\ d_calls[i].attr \in {OutputName[j] : j \in 2..4} =>
                      d_self.attrs[d_calls[i].attr].kind = "Conv2d"
               /\ \A j \in 1..3 : HasPart(d_calls[i].skip, UpsampleName[j]) =>
                      RanAttr(OutputName[j + 1])

\* a decoder whose n_resolution was forced to 2 returned the upsampled output1
C26_Witness ==
    /\ DecoderReturned
    /\ d_args.n_resolution = 1
    /\ d_self.n_resolution = 2
    /\ HasUpsample(d_self.output_func)
    /\ RanAttr(OutputName[2])
    /\ d_result[Len(d_result)].id = UpsampleName[1]

-----------------------------------------------------------------------------
(* C27: when forward is given fewer than network_depth - 1 skip entries, it raises
   instead of passing an already consumed skip entry to a second decode block: the
   skip index never wraps around to the end of the list. *)
C27_ShortSkipsRaise ==
    (d_pc \in {"D6", "D5", "D4", "D3", "D2", "D1", "D0", "done", "raised"}
     /\ Len(d_in.skips) < DecoderDepth - 1) =>
        /\ \A i \in 1..Len(DeconvCalls) : DeconvCalls[i].n >= 0
        /\ \A i, j \in 1..Len(DeconvCalls) :
               (i # j /\ DeconvCalls[i].entry # None) =>
                   DeconvCalls[i].entry # DeconvCalls[j].entry
        /\ ~DecoderReturned

-----------------------------------------------------------------------------
(* C28: VGGNetEncoder construction succeeds for every supported n_layer (8, 11, 13)
   with n_filters of length 5, 6 or 7; it builds conv6 exactly when
   len(n_filters) >= 6 and conv7 exactly when len(n_filters) = 7, and forward then
   returns len(n_filters) - 1 skip entries. *)
C28_VGGNetAcceptsFiveToSevenFilters ==
    (/\ enc.cls = "VGGNetEncoder"
     /\ enc.n_layer \in {8, 11, 13}
     /\ Len(enc.n_filters) \in 5..7
     /\ enc.activation_func \in RecognizedActivations) =>
        /\ enc.err = ""
        /\ VGGNetHasStage(enc.n_filters, 6) <=> Len(enc.n_filters) >= 6
        /\ VGGNetHasStage(enc.n_filters, 7) <=> Len(enc.n_filters) = 7
        /\ VGGNetForwardSkips(enc.n_filters) = Len(enc.n_filters) - 1

-----------------------------------------------------------------------------
(* C29: in both atrous encoders (AtrousResNetEncoder and AtrousVGGNetEncoder) the
   fourth stage is built with dilation 2 and the fifth stage with dilation 4. *)
C29_AtrousDilationsTwoThenFour ==
    (enc.cls \in {"AtrousResNetEncoder", "AtrousVGGNetEncoder"} /\ enc.err = "") =>
        enc.dilations = <<2, 4>>

-----------------------------------------------------------------------------
(* C30: pool sizes <= 1 produce no pooled map, and every configured pool size
   s > 1 (stride 1, padding s // 2) produces exactly one pooled map with the height
   and width of the input depth map, so that all pooled maps can be concatenated
   with each other and, after the 1x1 stack, with the input; the declared input
   channel count of the 1x1 stack equals the number of pooled maps. *)

\* the pool sizes of the pyramid's entries, in order
PyramidSizes == [i \in 1..Len(p_pyramid) |-> p_pyramid[i].s]

C30_OnePooledMapPerSizeSameSize ==
    /\ \A i \in 1..Len(p_pyramid) :
           /\ p_pyramid[i].s > 1
           /\ p_pyramid[i].map.h = p_x.z.h
           /\ p_pyramid[i].map.w = p_x.z.w
    /\ p_pc \in {"cat", "done"} =>
           /\ PyramidSizes = p_self.min_pool_sizes \o p_self.max_pool_sizes
           /\ Len(p_pyramid) = p_self.len_pool_sizes
    /\ p_pc = "raised" => p_self.len_pool_sizes = 0

====
